---------------------------- MODULE Spec2Model ----------------------------
(***************************************************************************)
(* Model of the infra-rate-limit crate: RateLimitConfig and the three      *)
(* RateLimiter strategies (TokenBucket, SlidingWindowLimiter,              *)
(* FixedWindowLimiter).                                                    *)
(*                                                                         *)
(* Time is the monotonic clock (std::time::Instant) counted in clock       *)
(* ticks; a Duration is a number of ticks.  The f64 token count of the     *)
(* token bucket is kept in fixed point: One units are one token, and       *)
(* requests_per_second is the number of units refilled per tick, so that   *)
(* elapsed * rate is exact and a token may take a fractional number of     *)
(* ticks to refill.                                                        *)
(***************************************************************************)
EXTENDS Integers, Sequences, FiniteSets

\* ------------------------------------------------------------ bounds
MaxTime == 5
MaxRate == 3
MaxBurst == 2
MaxWindow == 2
NumCallers == 2
\* the clock's range and the number of calls made where each call is several
\* steps; the clock's range where several instances are called
LkMaxTime == 1
MaxCalls == 5
\* how many consecutive denials of one acquire call are counted
MaxDenials == 2
\* how many limiter instances a program holds side by side
NumInstances == 2
\* the width of a Duration's seconds (u64), scaled down
DurationBits == 12
\* the width of an f64's mantissa, scaled down
F64Mantissa == 3

\* The f64 value 1.0 (one token) in fixed-point units.
One == 4

Callers == 1..NumCallers
NoCaller == 0
None == 0 - 1

VARIABLES
    now,        \* Instant::now(): the monotonic clock
    config,     \* the instance's RateLimitConfig
    bucket,     \* TokenBucket: BucketState behind the mutex
    sliding,    \* SlidingWindowLimiter: WindowState behind the mutex
    fixed,      \* FixedWindowLimiter: WindowState behind the mutex
    pc,         \* per caller: where it is ("idle", "sleeping" inside acquire, ...)
    wake,       \* per caller: the deadline of its tokio::time::sleep
    last,       \* the call completed by the most recent step (NoCall after a tick)
    tbObs,      \* observer of the token bucket's history
    swObs,      \* observer of the sliding window's history
    fwObs,      \* observer of the fixed window's history
    strategy,   \* which RateLimiter implementation the instance is
    mutex,      \* parking_lot::Mutex around the state: its holder, or NoCaller
    frame,      \* per caller: the locals of the call it is inside
    lkObs,      \* observer of the calls' critical sections
    obs         \* observer of the specifications over all three strategies

vars == <<now, config, bucket, sliding, fixed, pc, wake, last, tbObs, swObs, fwObs,
          strategy, mutex, frame, lkObs, obs>>

\* what the specifications of one strategy, a call being one step, leave alone
lkVars == <<mutex, frame, lkObs, obs>>

Min(a, b) == IF a <= b THEN a ELSE b

\* ------------------------------------------------------------ results
Allowed == [tag |-> "Allowed"]
Denied(w) == [tag |-> "Denied", wait_time |-> w]
\* the call did not return: it panicked
Panic == [tag |-> "Panic"]
is_allowed(r) == r.tag = "Allowed"
is_denied(r) == r.tag = "Denied"

NoCall == [op |-> "none", caller |-> NoCaller, result |-> Allowed]
Call(op, c, r) == [op |-> op, caller |-> c, result |-> r]
NoFrame == [op |-> "none"]
\* acquire's attempts are try_acquire calls
IsTry(l) == l.op \in {"try_acquire", "acquire"}

\* ------------------------------------------------------------ config
Ok(v) == [ok |-> TRUE, value |-> v]
Err(kind, msg) == [ok |-> FALSE, kind |-> kind, msg |-> msg]

\* An f64 is a whole number of units (One units are 1.0) or NaN, which is
\* kept apart from every number the model computes with.
NaN == 0 - 1000000
is_nan(x) == x = NaN
\* Or it is a fraction of units: Ratio(n, k) is n/k units, for the rates whose
\* product with an elapsed time is not a whole number of units (the refill
\* then rounds it to the nearest f64), and Frac(k) is 1/k unit, for the rates
\* so slow that a token takes longer to refill than a Duration can hold.
FracBase == 0 - 2000000
FracRadix == 2^DurationBits
Ratio(n, k) == FracBase - (n * FracRadix + k)
Frac(k) == Ratio(1, k)
is_frac(x) == x < FracBase
\* the f64 x as the fraction f64_num(x) / f64_den(x) of a unit
f64_num(x) == IF is_frac(x) THEN (FracBase - x) \div FracRadix ELSE x
f64_den(x) == IF is_frac(x) THEN (FracBase - x) % FracRadix ELSE 1
\* f64 comparisons: false when an operand is NaN
f64_le(a, b) ==
    ~is_nan(a) /\ ~is_nan(b) /\ f64_num(a) * f64_den(b) <= f64_num(b) * f64_den(a)
f64_gt(a, b) ==
    ~is_nan(a) /\ ~is_nan(b) /\ f64_num(a) * f64_den(b) > f64_num(b) * f64_den(a)

\* new with the two checks in the other order
RateLimitConfig_new_BurstFirst(requests_per_second, burst_size, window_size) ==
    IF burst_size = 0
    THEN Err("InvalidConfig", "burst_size must be positive")
    ELSE IF f64_le(requests_per_second, 0)
    THEN Err("InvalidConfig", "requests_per_second must be positive")
    ELSE Ok([requests_per_second |-> requests_per_second,
             burst_size |-> burst_size,
             window_size |-> window_size])

RateLimitConfig_new(requests_per_second, burst_size, window_size) ==
    IF f64_le(requests_per_second, 0)
    THEN Err("InvalidConfig", "requests_per_second must be positive")
    ELSE IF burst_size = 0
    THEN Err("InvalidConfig", "burst_size must be positive")
    ELSE Ok([requests_per_second |-> requests_per_second,
             burst_size |-> burst_size,
             window_size |-> window_size])

\* x.floor() as u64 for x.ceil() as u64
f64_ceil_as_u64_Floor(x) ==
    IF is_nan(x) \/ x <= 0 THEN 0 ELSE x \div One

\* x.ceil() as u64: the cast saturates (negative to 0) and takes NaN to 0
f64_ceil_as_u64(x) ==
    IF is_nan(x) \/ x <= 0 THEN 0 ELSE (x + One - 1) \div One

\* num / den of two naturals rounded to the nearest unit, ties to even
RoundDiv(num, den) ==
    LET q == num \div den
        r == num % den
    IN  IF 2 * r < den THEN q
        ELSE IF 2 * r > den THEN q + 1
        ELSE IF q % 2 = 0 THEN q ELSE q + 1

\* x / d for a whole d > 0: the nearest f64, so that a quotient below half
\* the smallest positive f64 (one unit) underflows to zero
f64_div(x, d) ==
    IF is_nan(x) THEN NaN
    ELSE IF x >= 0 THEN RoundDiv(x, d)
    ELSE 0 - RoundDiv(0 - x, d)

\* Duration::from_secs, the tick taken to be one second
Duration_from_secs(n) == n
SecsPerMinute == 60
SecsPerHour == 3600
DefaultRate == 10
DefaultBurst == 10

RateLimitConfig_per_second(requests_per_second) ==
    RateLimitConfig_new(requests_per_second,
                        f64_ceil_as_u64(requests_per_second),
                        Duration_from_secs(1))

RateLimitConfig_per_minute(requests_per_minute) ==
    RateLimitConfig_new(f64_div(requests_per_minute, SecsPerMinute),
                        f64_ceil_as_u64(requests_per_minute),
                        Duration_from_secs(SecsPerMinute))

RateLimitConfig_per_hour(requests_per_hour) ==
    RateLimitConfig_new(f64_div(requests_per_hour, SecsPerHour),
                        f64_ceil_as_u64(requests_per_hour),
                        Duration_from_secs(SecsPerHour))

RateLimitConfig_default ==
    [requests_per_second |-> DefaultRate * One,
     burst_size |-> DefaultBurst,
     window_size |-> Duration_from_secs(1)]

\* Every config a caller can hold comes out of RateLimitConfig::new.
ConfigsOf(rates, bursts, windows) ==
    { RateLimitConfig_new(r, b, w).value :
        <<r, b, w>> \in { x \in rates \X bursts \X windows :
                            RateLimitConfig_new(x[1], x[2], x[3]).ok } }

\* ------------------------------------------------------------ time
\* Instant::duration_since saturates to zero
duration_since(a, b) == IF a >= b THEN a - b ELSE 0
saturating_duration_since(a, b) == IF a >= b THEN a - b ELSE 0

\* A Duration holds whole seconds in a u64: DurationBits is that width, scaled
\* down, and DurationMax the longest Duration, in ticks.
DurationMax == 2^DurationBits - 1
\* what from_secs_f64 gives where Duration::from_secs_f64 panics
Panics == 0 - 2

\* An Instant holds whole seconds in an i64, half the range of a Duration's
\* u64: InstantMin and InstantMax are the first and the last Instant, in
\* ticks, the clock's origin being 0.  (Where the platform's Instant counts
\* from an origin it cannot go below, InstantMin is higher.)
InstantMin == 0 - 2^(DurationBits - 1)
InstantMax == 2^(DurationBits - 1) - 1
\* Instant - Duration and Instant + Duration panic when the result is not an
\* Instant ("overflow when subtracting duration from instant")
Instant_sub_overflows(t, d) == t - d < InstantMin
Instant_add_overflows(t, d) == t + d > InstantMax

\* Duration::from_secs_f64(num / den): the nearest whole tick, ties to even;
\* it panics when the value does not fit a Duration.
from_secs_f64(num, den) ==
    IF RoundDiv(num, den) > DurationMax THEN Panics ELSE RoundDiv(num, den)

\* ------------------------------------------------------------ TokenBucket
\* n as f64, in units: exact up to F64Exact = 2^F64Mantissa (the width of an
\* f64's mantissa, scaled down); from there to twice that the f64s are the
\* even numbers and the cast rounds to the nearest, ties to even.
F64Exact == 2^F64Mantissa
u64_as_f64(n) == IF n <= F64Exact THEN n * One ELSE 2 * RoundDiv(n, 2) * One

\* new with an empty bucket
TB_new_Empty(cfg, t) == [tokens |-> 0, last_refill |-> t]

TB_new(cfg, t) == [tokens |-> u64_as_f64(cfg.burst_size), last_refill |-> t]

\* refill without the clamp to burst_size
TB_refill_NoClamp(cfg, state, t) ==
    LET elapsed == duration_since(t, state.last_refill)
        new_tokens == elapsed * cfg.requests_per_second
    IN  [tokens |-> state.tokens + new_tokens, last_refill |-> t]

\* refill that forgets the banked tokens
TB_refill_DropBanked(cfg, state, t) ==
    LET elapsed == duration_since(t, state.last_refill)
        new_tokens == elapsed * cfg.requests_per_second
    IN  [tokens |-> Min(new_tokens, u64_as_f64(cfg.burst_size)),
         last_refill |-> t]

TB_refill(cfg, state, t) ==
    LET elapsed == duration_since(t, state.last_refill)
        new_tokens == RoundDiv(elapsed * f64_num(cfg.requests_per_second),
                               f64_den(cfg.requests_per_second))
    IN  [tokens |-> Min(state.tokens + new_tokens, u64_as_f64(cfg.burst_size)),
         last_refill |-> t]

\* (1.0 / requests_per_second) * tokens_needed, converted to a Duration
TB_calculate_wait_time(cfg, tokens_needed) ==
    from_secs_f64(tokens_needed * f64_den(cfg.requests_per_second),
                  f64_num(cfg.requests_per_second))

\* the decision with tokens > 1.0 for tokens >= 1.0
TB_decide_Strict(cfg, state) ==
    IF state.tokens > One
    THEN [state |-> [state EXCEPT !.tokens = @ - One], result |-> Allowed]
    ELSE [state |-> state,
          result |-> Denied(TB_calculate_wait_time(cfg, One - state.tokens))]

\* the decision that debits the token before it looks at the balance
TB_decide_DebitFirst(cfg, state) ==
    IF state.tokens >= One
    THEN [state |-> [state EXCEPT !.tokens = @ - One], result |-> Allowed]
    ELSE [state |-> [state EXCEPT !.tokens = 0],
          result |-> Denied(TB_calculate_wait_time(cfg, One - state.tokens))]

\* the test with tokens > 0.0 for tokens >= 1.0
TB_has_token_Any(cfg, state) == state.tokens > 0

\* if state.tokens >= 1.0
TB_has_token(cfg, state) == state.tokens >= One
\* the Allowed branch without the debit
TB_take_Free(cfg, state) == state

\* state.tokens -= 1.0
TB_take(cfg, state) == [state EXCEPT !.tokens = @ - One]
\* the Denied branch; a panic in calculate_wait_time unwinds out of try_acquire
TB_deny(cfg, state) ==
    IF TB_calculate_wait_time(cfg, One - state.tokens) = Panics
    THEN Panic
    ELSE Denied(TB_calculate_wait_time(cfg, One - state.tokens))

\* try_acquire after the refill: the decision on the refilled state
TB_decide(cfg, state) ==
    IF TB_has_token(cfg, state)
    THEN [state |-> TB_take(cfg, state), result |-> Allowed]
    ELSE [state |-> state, result |-> TB_deny(cfg, state)]

TB_try_acquire(cfg, state, t) == TB_decide(cfg, TB_refill(cfg, state, t))

\* available that rounds the token count up
TB_available_Ceil(cfg, state, t) ==
    LET s == TB_refill(cfg, state, t)
    IN  [state |-> s, result |-> (s.tokens + One - 1) \div One]

TB_available(cfg, state, t) ==
    LET s == TB_refill(cfg, state, t)
    IN  [state |-> s, result |-> s.tokens \div One]

\* reset that refills the bucket but leaves last_refill alone
TB_reset_KeepClock(cfg, state, t) ==
    [tokens |-> u64_as_f64(cfg.burst_size), last_refill |-> state.last_refill]

TB_reset(cfg, state, t) ==
    [tokens |-> u64_as_f64(cfg.burst_size), last_refill |-> t]

\* ------------------------------------------------------------ SlidingWindowLimiter
SW_new(cfg) == [requests |-> <<>>]

\* while let Some(&first) = front() { if first < cutoff { pop_front() } else { break } }
RECURSIVE pop_expired(_, _)
pop_expired(requests, cutoff) ==
    IF requests # <<>> /\ Head(requests) < cutoff
    THEN pop_expired(Tail(requests), cutoff)
    ELSE requests

\* clean_expired that also evicts a timestamp exactly window old
SW_clean_expired_Inclusive(cfg, state, t) ==
    [requests |-> pop_expired(state.requests, t - cfg.window_size + 1)]

SW_clean_expired(cfg, state, t) ==
    LET cutoff == t - cfg.window_size
    IN  [requests |-> pop_expired(state.requests, cutoff)]

SW_calculate_wait_time(cfg, state, t) ==
    IF state.requests # <<>>
    THEN LET oldest == Head(state.requests)
             window_end == oldest + cfg.window_size
         IN  saturating_duration_since(window_end, t)
    ELSE 0

\* the decision that admits without recording the timestamp (no push_back)
SW_decide_NoRecord(cfg, state, t) ==
    IF Len(state.requests) < cfg.burst_size
    THEN [state |-> state, result |-> Allowed]
    ELSE [state |-> state,
          result |-> Denied(SW_calculate_wait_time(cfg, state, t))]

\* the decision that records the timestamp before it looks at the length
SW_decide_RecordFirst(cfg, state, t) ==
    IF Len(state.requests) < cfg.burst_size
    THEN [state |-> [requests |-> Append(state.requests, t)], result |-> Allowed]
    ELSE [state |-> [requests |-> Append(state.requests, t)],
          result |-> Denied(SW_calculate_wait_time(cfg, state, t))]

\* the test with len <= burst_size for len < burst_size
SW_has_slot_OffByOne(cfg, state) == Len(state.requests) <= cfg.burst_size

\* if (state.requests.len() as u64) < self.config.burst_size
SW_has_slot(cfg, state) == Len(state.requests) < cfg.burst_size
\* push_front for push_back
SW_take_PushFront(cfg, state, t) == [requests |-> <<t>> \o state.requests]

\* state.requests.push_back(now)
SW_take(cfg, state, t) == [requests |-> Append(state.requests, t)]
\* the Denied branch
SW_deny(cfg, state, t) ==
    IF /\ state.requests # <<>>
       /\ Instant_add_overflows(Head(state.requests), cfg.window_size)
    THEN Panic
    ELSE Denied(SW_calculate_wait_time(cfg, state, t))

\* try_acquire after the eviction: the decision on the cleaned state
SW_decide(cfg, state, t) ==
    IF SW_has_slot(cfg, state)
    THEN [state |-> SW_take(cfg, state, t), result |-> Allowed]
    ELSE [state |-> state, result |-> SW_deny(cfg, state, t)]

\* a panic in clean_expired (now - window_size) unwinds out of try_acquire
SW_try_acquire(cfg, state, t) ==
    IF Instant_sub_overflows(t, cfg.window_size)
    THEN [state |-> state, result |-> Panic]
    ELSE SW_decide(cfg, SW_clean_expired(cfg, state, t), t)

\* u64::saturating_sub
saturating_sub(a, b) == IF a >= b THEN a - b ELSE 0

\* available without the eviction step
SW_available_NoEvict(cfg, state, t) ==
    [state |-> state,
     result |-> saturating_sub(cfg.burst_size, Len(state.requests))]

\* where clean_expired panics, available returns nothing: Panics
SW_available(cfg, state, t) ==
    LET s == SW_clean_expired(cfg, state, t)
    IN  IF Instant_sub_overflows(t, cfg.window_size)
        THEN [state |-> state, result |-> Panics]
        ELSE [state |-> s,
              result |-> saturating_sub(cfg.burst_size, Len(s.requests))]

SW_reset(cfg, state) == [requests |-> <<>>]

\* ------------------------------------------------------------ FixedWindowLimiter
FW_new(cfg, t) == [count |-> 0, window_start |-> t]

\* maybe_reset_window with elapsed > window for elapsed >= window
FW_maybe_reset_window_Strict(cfg, state, t) ==
    LET elapsed == duration_since(t, state.window_start)
    IN  IF elapsed > cfg.window_size
        THEN [count |-> 0, window_start |-> t]
        ELSE state

\* maybe_reset_window with the comparison the wrong way round
FW_maybe_reset_window_Flipped(cfg, state, t) ==
    LET elapsed == duration_since(t, state.window_start)
    IN  IF elapsed <= cfg.window_size
        THEN [count |-> 0, window_start |-> t]
        ELSE state

\* maybe_reset_window that starts the new window without zeroing the count
FW_maybe_reset_window_KeepCount(cfg, state, t) ==
    LET elapsed == duration_since(t, state.window_start)
    IN  IF elapsed >= cfg.window_size
        THEN [count |-> state.count, window_start |-> t]
        ELSE state

FW_maybe_reset_window(cfg, state, t) ==
    LET elapsed == duration_since(t, state.window_start)
    IN  IF elapsed >= cfg.window_size
        THEN [count |-> 0, window_start |-> t]
        ELSE state

\* t2: the clock read by calculate_wait_time itself
FW_calculate_wait_time(cfg, state, t2) ==
    LET window_end == state.window_start + cfg.window_size
    IN  saturating_duration_since(window_end, t2)

\* the decision with count <= burst_size for count < burst_size
FW_decide_OffByOne(cfg, state, t2) ==
    IF state.count <= cfg.burst_size
    THEN [state |-> [state EXCEPT !.count = @ + 1], result |-> Allowed]
    ELSE [state |-> state,
          result |-> Denied(FW_calculate_wait_time(cfg, state, t2))]

\* the decision that counts the request before it looks at the count
FW_decide_CountFirst(cfg, state, t2) ==
    IF state.count < cfg.burst_size
    THEN [state |-> [state EXCEPT !.count = @ + 1], result |-> Allowed]
    ELSE [state |-> [state EXCEPT !.count = @ + 1],
          result |-> Denied(FW_calculate_wait_time(cfg, state, t2))]

\* if state.count < self.config.burst_size
FW_has_room(cfg, state) == state.count < cfg.burst_size
\* state.count += 1
FW_take(cfg, state) == [state EXCEPT !.count = @ + 1]
\* the Denied branch
FW_deny(cfg, state, t2) ==
    IF Instant_add_overflows(state.window_start, cfg.window_size)
    THEN Panic
    ELSE Denied(FW_calculate_wait_time(cfg, state, t2))

\* try_acquire after the rollover check: the decision on the current window
FW_decide(cfg, state, t2) ==
    IF FW_has_room(cfg, state)
    THEN [state |-> FW_take(cfg, state), result |-> Allowed]
    ELSE [state |-> state, result |-> FW_deny(cfg, state, t2)]

\* t: the clock read by maybe_reset_window; t2 >= t: the one read for the wait
FW_try_acquire(cfg, state, t, t2) ==
    FW_decide(cfg, FW_maybe_reset_window(cfg, state, t), t2)

\* available without the rollover check
FW_available_NoRollover(cfg, state, t) ==
    [state |-> state, result |-> saturating_sub(cfg.burst_size, state.count)]

FW_available(cfg, state, t) ==
    LET s == FW_maybe_reset_window(cfg, state, t)
    IN  [state |-> s, result |-> saturating_sub(cfg.burst_size, s.count)]

\* reset that restarts the window but keeps the count
FW_reset_KeepCount(cfg, state, t) == [count |-> state.count, window_start |-> t]

FW_reset(cfg, state, t) == [count |-> 0, window_start |-> t]

\* ------------------------------------------------------------ callers
\* acquire that gives up when its attempt is denied
AfterAttempt_GiveUp(c, r, t) ==
    /\ pc' = [pc EXCEPT ![c] = "idle"]
    /\ wake' = [wake EXCEPT ![c] = 0]

\* acquire: Allowed returns Ok(()); Denied sleeps for wait_time, then retries.
AfterAttempt(c, r, t) ==
    IF is_allowed(r)
    THEN /\ pc' = [pc EXCEPT ![c] = "idle"]
         /\ wake' = [wake EXCEPT ![c] = 0]
    ELSE /\ pc' = [pc EXCEPT ![c] = "sleeping"]
         /\ wake' = [wake EXCEPT ![c] = t + r.wait_time]

CanAttempt(c) == pc[c] = "idle" \/ (pc[c] = "sleeping" /\ now >= wake[c])

\* ------------------------------------------------------------ TokenBucket: observer
\* fresh: no reset since construction; nTry: try_acquire calls since construction
\* (counted up to burst + 2); firstAt: when the first of them was made;
\* burstAt: when the burst_size-th of them was made;
\* exhaustedAt: since when, with no admission and no reset in between, the
\* bucket has held less than one token (-1: it is not known to).

TbObsInit ==
    [fresh |-> TRUE, nTry |-> 0, firstAt |-> None, burstAt |-> None,
     exhaustedAt |-> None]

TbObsCall(op, r, state) ==
    LET n == IF op = "try" THEN Min(tbObs.nTry + 1, config.burst_size + 2)
             ELSE tbObs.nTry
    IN  [fresh |-> tbObs.fresh /\ op # "reset",
         nTry |-> n,
         firstAt |-> IF op = "try" /\ tbObs.nTry = 0 THEN now ELSE tbObs.firstAt,
         burstAt |-> IF op = "try" /\ n = config.burst_size /\ tbObs.nTry < n
                     THEN now ELSE tbObs.burstAt,
         exhaustedAt |->
            IF state.tokens >= One THEN None
            ELSE IF op = "try" /\ is_allowed(r) THEN now
            ELSE IF tbObs.exhaustedAt = None THEN now
            ELSE tbObs.exhaustedAt]

\* ------------------------------------------------------------ TokenBucket: actions
TbInit ==
    /\ now = 0
    /\ strategy = "TokenBucket"
    /\ mutex = NoCaller
    /\ frame = [c \in Callers |-> NoFrame]
    /\ lkObs = None
    /\ obs = None
    /\ config \in ConfigsOf(0..MaxRate, 0..MaxBurst, {1})
    /\ bucket = TB_new(config, 0)
    /\ sliding = SW_new(config)
    /\ fixed = FW_new(config, 0)
    /\ pc = [c \in Callers |-> "idle"]
    /\ wake = [c \in Callers |-> 0]
    /\ last = NoCall
    /\ tbObs = TbObsInit
    /\ swObs = None
    /\ fwObs = None

TbTick ==
    /\ now < MaxTime
    /\ now' = now + 1
    /\ last' = NoCall
    /\ UNCHANGED <<strategy, lkVars, config, bucket, sliding, fixed, pc, wake, tbObs, swObs, fwObs>>

TbTryAcquire(c) ==
    /\ pc[c] = "idle"
    /\ LET out == TB_try_acquire(config, bucket, now)
       IN  /\ bucket' = out.state
           /\ last' = Call("try_acquire", c, out.result)
           /\ tbObs' = TbObsCall("try", out.result, out.state)
    /\ UNCHANGED <<strategy, lkVars, now, config, sliding, fixed, pc, wake, swObs, fwObs>>

TbAcquire(c) ==
    /\ CanAttempt(c)
    /\ LET out == TB_try_acquire(config, bucket, now)
       IN  /\ bucket' = out.state
           /\ last' = Call("acquire", c, out.result)
           /\ tbObs' = TbObsCall("try", out.result, out.state)
           /\ AfterAttempt(c, out.result, now)
    /\ UNCHANGED <<strategy, lkVars, now, config, sliding, fixed, swObs, fwObs>>

TbAvailable(c) ==
    /\ pc[c] = "idle"
    /\ LET out == TB_available(config, bucket, now)
       IN  /\ bucket' = out.state
           /\ last' = Call("available", c, out.result)
           /\ tbObs' = TbObsCall("available", out.result, out.state)
    /\ UNCHANGED <<strategy, lkVars, now, config, sliding, fixed, pc, wake, swObs, fwObs>>

TbReset(c) ==
    /\ pc[c] = "idle"
    /\ bucket' = TB_reset(config, bucket, now)
    /\ last' = Call("reset", c, Allowed)
    /\ tbObs' = TbObsCall("reset", Allowed, TB_reset(config, bucket, now))
    /\ UNCHANGED <<strategy, lkVars, now, config, sliding, fixed, pc, wake, swObs, fwObs>>

TbNext ==
    \/ TbTick
    \/ \E c \in Callers : TbTryAcquire(c)
    \/ \E c \in Callers : TbAcquire(c)
    \/ \E c \in Callers : TbAvailable(c)
    \/ \E c \in Callers : TbReset(c)

SpecTB == TbInit /\ [][TbNext]_vars

\* ------------------------------------------------------------ TokenBucket: claims

C6_Original ==
    (IsTry(last) /\ tbObs.fresh) =>
        /\ (tbObs.nTry <= config.burst_size => is_allowed(last.result))
        /\ (/\ tbObs.nTry = config.burst_size + 1
            /\ (now - tbObs.burstAt) * config.requests_per_second < One)
           => (is_denied(last.result) /\ last.result.wait_time > 0)

\* C6 amended: on a fresh bucket the first burst calls are Allowed, and the
\* (burst+1)-th, made when elapsed * rate < 1 since the first of them, is
\* Denied; its wait_time is > 0 when a token takes a whole number of clock
\* ticks to refill (it may round to 0 otherwise).
C6_BurstThenExhaust ==
    (IsTry(last) /\ tbObs.fresh) =>
        /\ (tbObs.nTry <= config.burst_size => is_allowed(last.result))
        /\ (/\ tbObs.nTry = config.burst_size + 1
            /\ (now - tbObs.firstAt) * config.requests_per_second < One)
           => /\ is_denied(last.result)
              /\ (One % config.requests_per_second = 0 => last.result.wait_time > 0)

\* the (burst+1)-th call of a fresh bucket, made after the clock has advanced
\* but before a token is refilled, is Denied with a positive wait
C6_Witness ==
    /\ IsTry(last) /\ tbObs.fresh
    /\ tbObs.nTry = config.burst_size + 1
    /\ config.burst_size = MaxBurst
    /\ now > tbObs.firstAt
    /\ (now - tbObs.firstAt) * config.requests_per_second < One
    /\ is_denied(last.result) /\ last.result.wait_time > 0

\* C7: once the bucket has held less than one token and at least 1/rate has
\* elapsed since, with no admission (and no reset) in between, available()
\* returns at least 1 and try_acquire is Allowed.
C7_RefillAfterExhaustion ==
    [][(/\ tbObs.exhaustedAt # None
        /\ (now - tbObs.exhaustedAt) * config.requests_per_second >= One)
       => /\ (last'.op = "available" => last'.result >= 1)
          /\ (IsTry(last') => is_allowed(last'.result))]_vars

\* a try_acquire Allowed on a bucket of burst 1 that was emptied, polled while
\* still short of a token (Denied), and refilled since
C7_Witness ==
    /\ config.burst_size = 1
    /\ tbObs.fresh
    /\ tbObs.nTry = 3
    /\ IsTry(last) /\ is_allowed(last.result)
    /\ bucket.tokens < One

\* ------------------------------------------------------------ SlidingWindow: observer
\* fresh, nTry, firstAt: as for the token bucket; admitted: the times of the
\* admissions (Allowed results) not older than now - window, kept until the
\* first reset; deny: the last
\* Denied result and when it was returned, while no other call has followed it.
NoDeny == [at |-> None, wait_time |-> 0]

SwObsInit ==
    [fresh |-> TRUE, nTry |-> 0, firstAt |-> None, admitted |-> <<>>,
     deny |-> NoDeny]

InWindow(t) == t >= now - config.window_size /\ t <= now

SwObsCall(op, r) ==
    [fresh |-> swObs.fresh /\ op # "reset",
     nTry |-> IF op = "try" THEN Min(swObs.nTry + 1, config.burst_size + 2)
              ELSE swObs.nTry,
     firstAt |-> IF op = "try" /\ swObs.nTry = 0 THEN now ELSE swObs.firstAt,
     admitted |-> IF ~swObs.fresh \/ op = "reset" THEN <<>>
                  ELSE IF op = "try" /\ is_allowed(r)
                  THEN Append(swObs.admitted, now) ELSE swObs.admitted,
     deny |-> IF op = "try" /\ is_denied(r)
              THEN [at |-> now, wait_time |-> r.wait_time] ELSE NoDeny]

\* the clock moves: admissions older than the new now - window leave the log
SwObsTick ==
    [swObs EXCEPT !.admitted =
        SelectSeq(@, LAMBDA t : t >= now + 1 - config.window_size)]

\* ------------------------------------------------------------ SlidingWindow: actions
SwInit ==
    /\ now = 0
    /\ strategy = "SlidingWindow"
    /\ mutex = NoCaller
    /\ frame = [c \in Callers |-> NoFrame]
    /\ lkObs = None
    /\ obs = None
    /\ config \in ConfigsOf({1}, 0..MaxBurst, 0..MaxWindow)
    /\ bucket = TB_new(config, 0)
    /\ sliding = SW_new(config)
    /\ fixed = FW_new(config, 0)
    /\ pc = [c \in Callers |-> "idle"]
    /\ wake = [c \in Callers |-> 0]
    /\ last = NoCall
    /\ tbObs = None
    /\ swObs = SwObsInit
    /\ fwObs = None

SwTick ==
    /\ now < MaxTime
    /\ now' = now + 1
    /\ last' = NoCall
    /\ swObs' = SwObsTick
    /\ UNCHANGED <<strategy, lkVars, config, bucket, sliding, fixed, pc, wake, tbObs, fwObs>>

SwTryAcquire(c) ==
    /\ pc[c] = "idle"
    /\ LET out == SW_try_acquire(config, sliding, now)
       IN  /\ sliding' = out.state
           /\ last' = Call("try_acquire", c, out.result)
           /\ swObs' = SwObsCall("try", out.result)
    /\ UNCHANGED <<strategy, lkVars, now, config, bucket, fixed, pc, wake, tbObs, fwObs>>

SwAcquire(c) ==
    /\ CanAttempt(c)
    /\ LET out == SW_try_acquire(config, sliding, now)
       IN  /\ sliding' = out.state
           /\ last' = Call("acquire", c, out.result)
           /\ swObs' = SwObsCall("try", out.result)
           /\ AfterAttempt(c, out.result, now)
    /\ UNCHANGED <<strategy, lkVars, now, config, bucket, fixed, tbObs, fwObs>>

SwAvailable(c) ==
    /\ pc[c] = "idle"
    /\ LET out == SW_available(config, sliding, now)
       IN  /\ sliding' = out.state
           /\ last' = Call("available", c, out.result)
           /\ swObs' = SwObsCall("available", Allowed)
    /\ UNCHANGED <<strategy, lkVars, now, config, bucket, fixed, pc, wake, tbObs, fwObs>>

SwReset(c) ==
    /\ pc[c] = "idle"
    /\ sliding' = SW_reset(config, sliding)
    /\ last' = Call("reset", c, Allowed)
    /\ swObs' = SwObsCall("reset", Allowed)
    /\ UNCHANGED <<strategy, lkVars, now, config, bucket, fixed, pc, wake, tbObs, fwObs>>

SwNext ==
    \/ SwTick
    \/ \E c \in Callers : SwTryAcquire(c)
    \/ \E c \in Callers : SwAcquire(c)
    \/ \E c \in Callers : SwAvailable(c)
    \/ \E c \in Callers : SwReset(c)

SpecSW == SwInit /\ [][SwNext]_vars

\* ------------------------------------------------------------ SlidingWindow: claims

\* C2: with callers using try_acquire and acquire (no reset), the number of
\* admissions whose time t satisfies now - window <= t <= now is at most
\* burst in every reachable state.
C2_SlidingWindowBound ==
    swObs.fresh =>
        Cardinality({i \in DOMAIN swObs.admitted : InWindow(swObs.admitted[i])})
            <= config.burst_size

\* a full window one end of which is an admission exactly window old, the
\* other an admission made now by a caller inside acquire's retry loop
C2_Witness ==
    /\ swObs.fresh
    /\ config.window_size > 0
    /\ Len(swObs.admitted) = config.burst_size
    /\ config.burst_size = MaxBurst
    /\ swObs.admitted[1] = now - config.window_size
    /\ last.op = "acquire" /\ is_denied(last.result)

\* the timestamps of state older than t - window
Expired(state, t) ==
    Cardinality({i \in DOMAIN state.requests :
                    state.requests[i] < t - config.window_size})

\* how many consecutive try_acquire calls at instant t are Allowed from state
RECURSIVE SW_allowed_run(_, _)
SW_allowed_run(state, t) ==
    LET out == SW_try_acquire(config, state, t)
    IN  IF is_allowed(out.result) THEN 1 + SW_allowed_run(out.state, t) ELSE 0

\* C8: on a fresh limiter the first burst try_acquire calls are Allowed and a
\* further call within window of the first is Denied; and when the stored
\* timestamps are burst in number and k of them are older than now - window,
\* exactly k further calls are Allowed before the next Denied.
C8_SlidingWindowExact ==
    /\ (IsTry(last) /\ swObs.fresh) =>
          /\ (swObs.nTry <= config.burst_size => is_allowed(last.result))
          /\ (/\ swObs.nTry = config.burst_size + 1
              /\ now <= swObs.firstAt + config.window_size)
             => is_denied(last.result)
    /\ Len(sliding.requests) = config.burst_size =>
          SW_allowed_run(sliding, now) = Expired(sliding, now)

\* after the initial burst one expired slot was replaced (the timestamp now is
\* stored) and the call after that was Denied, the other slot being still live
C8_Witness ==
    /\ swObs.fresh
    /\ config.burst_size = MaxBurst
    /\ swObs.nTry = config.burst_size + 2
    /\ IsTry(last) /\ is_denied(last.result)
    /\ Len(sliding.requests) = config.burst_size
    /\ sliding.requests[Len(sliding.requests)] = now
    /\ sliding.requests[1] < now
    /\ now > config.window_size

C26_SlidingWindowStorage ==
    /\ [](Len(sliding.requests) <= config.burst_size)
    /\ [][ (IsTry(last') /\ is_denied(last'.result)) =>
              /\ sliding' = SW_clean_expired(config, sliding, now)
              /\ Len(sliding'.requests) <= Len(sliding.requests)
         ]_vars

\* after a reset the deque was filled again, MaxBurst timestamps, and the
\* try_acquire that followed was Denied and must wait
C26_Witness ==
    /\ ~swObs.fresh
    /\ config.burst_size = MaxBurst
    /\ Len(sliding.requests) = MaxBurst
    /\ last.op = "try_acquire"
    /\ is_denied(last.result)
    /\ last.result.wait_time > 0
    /\ sliding.requests[MaxBurst] = now

\* C9 as stated: when try_acquire at t returns Denied{w} and no other call
\* intervenes, a try_acquire at exactly t + w is Allowed (stated here for
\* window > 0 and w > 0 only, where it already fails).
C9_Original ==
    [][(/\ swObs.deny.at # None
        /\ config.window_size > 0
        /\ swObs.deny.wait_time > 0
        /\ now = swObs.deny.at + swObs.deny.wait_time
        /\ IsTry(last'))
       => is_allowed(last'.result)]_vars

\* ------------------------------------------------------------ FixedWindow: observer
\* fresh: no reset since construction; sinceRoll: the Allowed results since the
\* latest rollover or reset; rolledFrom: the count of the window that the
\* latest call closed (None when that call did not roll the window over).
FwObsInit == [fresh |-> TRUE, sinceRoll |-> 0, rolledFrom |-> None]

\* a call at the current instant finds the window over
WindowOver == now - fixed.window_start >= config.window_size

FwObsCall(op, r) ==
    LET rolls == op # "reset" /\ WindowOver
        base == IF rolls \/ op = "reset" THEN 0 ELSE fwObs.sinceRoll
    IN  [fresh |-> fwObs.fresh /\ op # "reset",
         sinceRoll |-> IF op = "try" /\ is_allowed(r) THEN base + 1 ELSE base,
         rolledFrom |-> IF rolls THEN fixed.count ELSE None]

\* ------------------------------------------------------------ FixedWindow: actions
FwInit ==
    /\ now = 0
    /\ strategy = "FixedWindow"
    /\ mutex = NoCaller
    /\ frame = [c \in Callers |-> NoFrame]
    /\ lkObs = None
    /\ obs = None
    /\ config \in ConfigsOf({1}, 0..MaxBurst, 0..MaxWindow)
    /\ bucket = TB_new(config, 0)
    /\ sliding = SW_new(config)
    /\ fixed = FW_new(config, 0)
    /\ pc = [c \in Callers |-> "idle"]
    /\ wake = [c \in Callers |-> 0]
    /\ last = NoCall
    /\ tbObs = None
    /\ swObs = None
    /\ fwObs = FwObsInit

FwTick ==
    /\ now < MaxTime
    /\ now' = now + 1
    /\ last' = NoCall
    /\ UNCHANGED <<strategy, lkVars, config, bucket, sliding, fixed, pc, wake, tbObs, swObs, fwObs>>

\* The clock is read once by maybe_reset_window and, when the call is denied,
\* once more by calculate_wait_time: it may have advanced to t2 in between.
FwTryAcquire(c) ==
    /\ pc[c] = "idle"
    /\ \E t2 \in now..MaxTime :
          LET out == FW_try_acquire(config, fixed, now, t2)
          IN  /\ is_allowed(out.result) => t2 = now
              /\ fixed' = out.state
              /\ now' = t2
              /\ last' = Call("try_acquire", c, out.result)
              /\ fwObs' = FwObsCall("try", out.result)
    /\ UNCHANGED <<strategy, lkVars, config, bucket, sliding, pc, wake, tbObs, swObs>>

FwAcquire(c) ==
    /\ CanAttempt(c)
    /\ \E t2 \in now..MaxTime :
          LET out == FW_try_acquire(config, fixed, now, t2)
          IN  /\ is_allowed(out.result) => t2 = now
              /\ fixed' = out.state
              /\ now' = t2
              /\ last' = Call("acquire", c, out.result)
              /\ fwObs' = FwObsCall("try", out.result)
              /\ AfterAttempt(c, out.result, t2)
    /\ UNCHANGED <<strategy, lkVars, config, bucket, sliding, tbObs, swObs>>

FwAvailable(c) ==
    /\ pc[c] = "idle"
    /\ LET out == FW_available(config, fixed, now)
       IN  /\ fixed' = out.state
           /\ last' = Call("available", c, out.result)
           /\ fwObs' = FwObsCall("available", Allowed)
    /\ UNCHANGED <<strategy, lkVars, now, config, bucket, sliding, pc, wake, tbObs, swObs>>

FwReset(c) ==
    /\ pc[c] = "idle"
    /\ fixed' = FW_reset(config, fixed, now)
    /\ last' = Call("reset", c, Allowed)
    /\ fwObs' = FwObsCall("reset", Allowed)
    /\ UNCHANGED <<strategy, lkVars, now, config, bucket, sliding, pc, wake, tbObs, swObs>>

FwNext ==
    \/ FwTick
    \/ \E c \in Callers : FwTryAcquire(c)
    \/ \E c \in Callers : FwAcquire(c)
    \/ \E c \in Callers : FwAvailable(c)
    \/ \E c \in Callers : FwReset(c)

SpecFW == FwInit /\ [][FwNext]_vars

\* ------------------------------------------------------------ FixedWindow: claims

\* C3: count <= burst in every reachable state, and between two consecutive
\* window rollovers (or resets) at most burst calls return Allowed, whatever
\* the number of callers.
C3_FixedWindowBound ==
    /\ fixed.count <= config.burst_size
    /\ fwObs.sinceRoll <= config.burst_size

\* a window opened by a rollover and filled to the burst, a caller inside
\* acquire being denied while another caller is asleep in acquire too
C3_Witness ==
    /\ config.burst_size = MaxBurst
    /\ fixed.window_start > 0
    /\ fixed.count = config.burst_size
    /\ fwObs.sinceRoll = config.burst_size
    /\ last.op = "acquire" /\ is_denied(last.result)
    /\ \A c \in Callers : pc[c] = "sleeping"

\* C10: whenever now - window_start >= window (boundary included), the next
\* try_acquire starts a new window (window_start = now) and returns Allowed,
\* leaving count = 1, even if the previous window was exhausted.
C10_FixedWindowRollover ==
    [][(IsTry(last') /\ WindowOver)
       => /\ is_allowed(last'.result)
          /\ fixed'.count = 1
          /\ fixed'.window_start = now]_vars

\* a try_acquire made exactly window after window_start closed an exhausted
\* window and was Allowed
C10_Witness ==
    /\ IsTry(last) /\ is_allowed(last.result)
    /\ config.window_size > 0
    /\ fwObs.rolledFrom = config.burst_size
    /\ fixed.count = 1
    /\ fixed.window_start = now
    /\ now = config.window_size

\* ------------------------------------------------------------ the calls step by step
(***************************************************************************)
(* SpecLK takes each call apart into the steps of its body: the call       *)
(* starts and waits for the mutex ("lock"), takes it, does its bookkeeping *)
(* (refill, clean_expired or maybe_reset_window: "book"), evaluates the    *)
(* condition of its if ("check"), and runs the chosen branch and returns,  *)
(* which drops the MutexGuard ("commit").  The clock may advance between   *)
(* any two steps.                                                          *)
(***************************************************************************)
Ops == {"try_acquire", "acquire", "available", "reset"}
InCall == {"book", "check", "commit"}

\* the state behind the mutex, whichever strategy the instance is
Instance == [bucket |-> bucket, sliding |-> sliding, fixed |-> fixed]

SetInstance(i) ==
    /\ bucket' = i.bucket
    /\ sliding' = i.sliding
    /\ fixed' = i.fixed

\* a lock that lets a caller in while another holds it
MutexLock_NoExclusion(c) == TRUE

\* parking_lot::Mutex::lock returns once no caller holds the mutex
MutexLock(c) == mutex = NoCaller

\* the guard kept by acquire across its sleep
MutexGuardDrop_AcrossSleep(c, op, r) ==
    IF op = "acquire" /\ is_denied(r) THEN c ELSE NoCaller

\* the MutexGuard is dropped when the call returns: the mutex has no holder
MutexGuardDrop(c, op, r) == NoCaller

\* the bookkeeping every call but reset starts with, at clock value t
Book(inst, t) ==
    CASE strategy = "TokenBucket" ->
            [inst EXCEPT !.bucket = TB_refill(config, @, t)]
      [] strategy = "SlidingWindow" ->
            [inst EXCEPT !.sliding = SW_clean_expired(config, @, t)]
      [] strategy = "FixedWindow" ->
            [inst EXCEPT !.fixed = FW_maybe_reset_window(config, @, t)]

\* the condition of try_acquire's if
Cond(inst) ==
    CASE strategy = "TokenBucket" -> TB_has_token(config, inst.bucket)
      [] strategy = "SlidingWindow" -> SW_has_slot(config, inst.sliding)
      [] strategy = "FixedWindow" -> FW_has_room(config, inst.fixed)

\* try_acquire's Allowed branch; t: the clock value read before the bookkeeping
Take(inst, t) ==
    CASE strategy = "TokenBucket" ->
            [inst EXCEPT !.bucket = TB_take(config, @)]
      [] strategy = "SlidingWindow" ->
            [inst EXCEPT !.sliding = SW_take(config, @, t)]
      [] strategy = "FixedWindow" ->
            [inst EXCEPT !.fixed = FW_take(config, @)]

\* try_acquire's Denied branch; t2: the clock value when the branch runs
Deny(inst, t, t2) ==
    CASE strategy = "TokenBucket" -> TB_deny(config, inst.bucket)
      [] strategy = "SlidingWindow" -> SW_deny(config, inst.sliding, t)
      [] strategy = "FixedWindow" -> FW_deny(config, inst.fixed, t2)

\* what available returns after the bookkeeping
Count(inst) ==
    CASE strategy = "TokenBucket" -> inst.bucket.tokens \div One
      [] strategy = "SlidingWindow" ->
            saturating_sub(config.burst_size, Len(inst.sliding.requests))
      [] strategy = "FixedWindow" ->
            saturating_sub(config.burst_size, inst.fixed.count)

\* reset's body, at clock value t2
Clear(inst, t2) ==
    CASE strategy = "TokenBucket" ->
            [inst EXCEPT !.bucket = TB_reset(config, @, t2)]
      [] strategy = "SlidingWindow" ->
            [inst EXCEPT !.sliding = SW_reset(config, @)]
      [] strategy = "FixedWindow" ->
            [inst EXCEPT !.fixed = FW_reset(config, @, t2)]

\* The call as one step: what op returns and leaves behind when it runs alone
\* on inst, reading the clock as t for its bookkeeping and as t2 afterwards.
Alone(op, inst, t, t2) ==
    CASE strategy = "TokenBucket" ->
            IF op = "reset"
            THEN [inst |-> [inst EXCEPT !.bucket = TB_reset(config, @, t2)],
                  result |-> Allowed]
            ELSE LET out == IF op = "available"
                            THEN TB_available(config, inst.bucket, t)
                            ELSE TB_try_acquire(config, inst.bucket, t)
                 IN  [inst |-> [inst EXCEPT !.bucket = out.state],
                      result |-> out.result]
      [] strategy = "SlidingWindow" ->
            IF op = "reset"
            THEN [inst |-> [inst EXCEPT !.sliding = SW_reset(config, @)],
                  result |-> Allowed]
            ELSE LET out == IF op = "available"
                            THEN SW_available(config, inst.sliding, t)
                            ELSE SW_try_acquire(config, inst.sliding, t)
                 IN  [inst |-> [inst EXCEPT !.sliding = out.state],
                      result |-> out.result]
      [] strategy = "FixedWindow" ->
            IF op = "reset"
            THEN [inst |-> [inst EXCEPT !.fixed = FW_reset(config, @, t2)],
                  result |-> Allowed]
            ELSE LET out == IF op = "available"
                            THEN FW_available(config, inst.fixed, t)
                            ELSE FW_try_acquire(config, inst.fixed, t, t2)
                 IN  [inst |-> [inst EXCEPT !.fixed = out.state],
                      result |-> out.result]

Sleepers == {d \in Callers : pc[d] = "sleeping"}

\* ------------------------------------------------------------ step by step: observer
\* calls: the calls started; serial: every call so far found, when it took the
\* mutex, the state the previous call left, and left and returned what Alone
\* gives from there; post: the state the latest completed call left;
\* onlyTry: only try_acquire and acquire have been called; nDone, nAllowed:
\* their completed attempts and the Allowed among them, counted while onlyTry
\* holds and the clock has not moved (0 afterwards); whileAsleep: the
\* operations that started and completed while another caller slept in acquire.
LkObsInit(inst) ==
    [calls |-> 0, serial |-> TRUE, post |-> inst, onlyTry |-> TRUE,
     nDone |-> 0, nAllowed |-> 0, whileAsleep |-> {}]

\* ------------------------------------------------------------ step by step: actions
LkInit ==
    /\ now = 0
    /\ strategy \in {"TokenBucket", "SlidingWindow", "FixedWindow"}
    /\ config \in IF strategy = "TokenBucket"
                  THEN ConfigsOf({MaxRate}, 0..MaxBurst, {1})
                  ELSE ConfigsOf({1}, 0..MaxBurst, {0, 1})
    /\ bucket = TB_new(config, 0)
    /\ sliding = SW_new(config)
    /\ fixed = FW_new(config, 0)
    /\ pc = [c \in Callers |-> "idle"]
    /\ wake = [c \in Callers |-> 0]
    /\ last = NoCall
    /\ tbObs = None
    /\ swObs = None
    /\ fwObs = None
    /\ mutex = NoCaller
    /\ frame = [c \in Callers |-> NoFrame]
    /\ obs = None
    /\ lkObs = LkObsInit([bucket |-> TB_new(config, 0), sliding |-> SW_new(config),
                          fixed |-> FW_new(config, 0)])

LkTick ==
    /\ now < LkMaxTime
    /\ now' = now + 1
    /\ last' = NoCall
    /\ lkObs' = [lkObs EXCEPT !.nDone = 0, !.nAllowed = 0]
    /\ UNCHANGED <<config, bucket, sliding, fixed, pc, wake, tbObs, swObs, fwObs,
                   strategy, mutex, frame, obs>>

\* a caller calls op (acquire: enters the loop, or wakes up and retries)
LkCall(c, op) ==
    /\ IF op = "acquire" THEN CanAttempt(c) ELSE pc[c] = "idle"
    /\ lkObs.calls < MaxCalls
    /\ pc' = [pc EXCEPT ![c] = "lock"]
    /\ frame' = [frame EXCEPT ![c] =
                    [op |-> op, t |-> 0, cond |-> FALSE, pre |-> None,
                     asleep |-> Sleepers \ {c}]]
    /\ lkObs' = IF op \in {"try_acquire", "acquire"}
                 THEN [lkObs EXCEPT !.calls = @ + 1]
                 ELSE [lkObs EXCEPT !.calls = @ + 1, !.onlyTry = FALSE,
                                    !.nDone = 0, !.nAllowed = 0]
    /\ last' = NoCall
    /\ UNCHANGED <<now, config, bucket, sliding, fixed, wake, tbObs, swObs, fwObs,
                   strategy, mutex, obs>>

\* self.state.lock()
LkLock(c) ==
    /\ pc[c] = "lock"
    /\ MutexLock(c)
    /\ mutex' = c
    /\ pc' = [pc EXCEPT ![c] = IF frame[c].op = "reset" THEN "commit" ELSE "book"]
    /\ frame' = [frame EXCEPT ![c].pre = Instance]
    /\ lkObs' = [lkObs EXCEPT !.serial = @ /\ Instance = lkObs.post]
    /\ last' = NoCall
    /\ UNCHANGED <<now, config, bucket, sliding, fixed, wake, tbObs, swObs, fwObs,
                   strategy, obs>>

\* refill / clean_expired / maybe_reset_window, reading the clock
LkBook(c) ==
    /\ pc[c] = "book"
    /\ SetInstance(Book(Instance, now))
    /\ frame' = [frame EXCEPT ![c].t = now]
    /\ pc' = [pc EXCEPT ![c] = IF frame[c].op = "available" THEN "commit" ELSE "check"]
    /\ last' = NoCall
    /\ UNCHANGED <<now, config, wake, tbObs, swObs, fwObs, strategy, mutex, lkObs, obs>>

\* the condition of the if
LkCheck(c) ==
    /\ pc[c] = "check"
    /\ frame' = [frame EXCEPT ![c].cond = Cond(Instance)]
    /\ pc' = [pc EXCEPT ![c] = "commit"]
    /\ last' = NoCall
    /\ UNCHANGED <<now, config, bucket, sliding, fixed, wake, tbObs, swObs, fwObs,
                   strategy, mutex, lkObs, obs>>

\* the chosen branch, and the return
LkCommit(c) ==
    /\ pc[c] = "commit"
    /\ LET f == frame[c]
           isTry == f.op \in {"try_acquire", "acquire"}
           counted == isTry /\ lkObs.onlyTry /\ now = 0
           inst == IF f.op = "reset" THEN Clear(Instance, now)
                   ELSE IF isTry /\ f.cond THEN Take(Instance, f.t)
                   ELSE Instance
           result == IF f.op = "reset" THEN Allowed
                     ELSE IF f.op = "available" THEN Count(Instance)
                     ELSE IF f.cond THEN Allowed
                     ELSE Deny(Instance, f.t, now)
       IN  /\ SetInstance(inst)
           /\ mutex' = MutexGuardDrop(c, f.op, result)
           /\ last' = Call(f.op, c, result)
           /\ IF f.op = "acquire"
              THEN AfterAttempt(c, result, now)
              ELSE /\ pc' = [pc EXCEPT ![c] = "idle"]
                   /\ wake' = wake
           /\ lkObs' = [lkObs EXCEPT
                 !.serial = @ /\ [inst |-> inst, result |-> result]
                                    = Alone(f.op, f.pre, f.t, now),
                 !.post = inst,
                 !.nDone = IF counted THEN @ + 1 ELSE @,
                 !.nAllowed = IF counted /\ is_allowed(result) THEN @ + 1 ELSE @,
                 !.whileAsleep = IF f.asleep \cap Sleepers # {}
                                 THEN @ \cup {f.op} ELSE @]
    /\ frame' = [frame EXCEPT ![c] = NoFrame]
    /\ UNCHANGED <<now, config, tbObs, swObs, fwObs, strategy, obs>>

LkNext ==
    \/ LkTick
    \/ \E c \in Callers, op \in Ops : LkCall(c, op)
    \/ \E c \in Callers : LkLock(c)
    \/ \E c \in Callers : LkBook(c)
    \/ \E c \in Callers : LkCheck(c)
    \/ \E c \in Callers : LkCommit(c)

SpecLK == LkInit /\ [][LkNext]_vars

\* ------------------------------------------------------------ step by step: claims

\* C4: calls on one instance are atomic: at most one caller is inside a
\* critical section, every call finds the state the previous call left and
\* returns and leaves what it would running alone (the calls take effect in
\* the order in which they take the mutex), and when callers have called only
\* try_acquire on a fresh instance with no refill, eviction or rollover
\* (the clock has not moved), exactly min(N, burst) of N calls got Allowed.
C4_CallsAreAtomic ==
    /\ Cardinality({c \in Callers : pc[c] \in InCall}) <= 1
    /\ lkObs.serial
    /\ (/\ lkObs.onlyTry
        /\ now = 0
        /\ (strategy = "FixedWindow" => config.window_size > 0))
       => lkObs.nAllowed = Min(lkObs.nDone, config.burst_size)

\* a try_acquire was Denied after burst others were Allowed at the same
\* instant, and the other caller's try_acquire, started meanwhile, is waiting
\* for the mutex
C4_Witness ==
    /\ lkObs.onlyTry /\ now = 0
    /\ last.op = "try_acquire" /\ is_denied(last.result)
    /\ lkObs.nAllowed = config.burst_size
    /\ \E c \in Callers : c # last.caller /\ pc[c] = "lock"
                          /\ frame[c].op = "try_acquire"

\* the timestamps of requests that are not expired at clock value t
Live(requests, t) ==
    SelectSeq(requests, LAMBDA a : a >= t - config.window_size)

\* C27: the SlidingWindowLimiter's stored timestamps are in non-decreasing
\* order, oldest first, in every reachable state, also while several callers
\* are inside try_acquire at once (each reads the clock after it has taken
\* the mutex), so that the eviction from the front, at the current or any
\* later clock value, removes exactly the expired timestamps.
C27_SlidingWindowOrdered ==
    strategy = "SlidingWindow" =>
        /\ \A i, j \in DOMAIN sliding.requests :
              i < j => sliding.requests[i] <= sliding.requests[j]
        /\ \A t \in now..MaxTime :
              SW_clean_expired(config, sliding, t).requests
                  = Live(sliding.requests, t)

\* two timestamps of different clock values are stored, the older first, and
\* the other caller is inside try_acquire, waiting for the mutex
C27_Witness ==
    /\ strategy = "SlidingWindow"
    /\ Len(sliding.requests) = 2
    /\ sliding.requests[1] < sliding.requests[2]
    /\ last.op = "try_acquire"
    /\ is_allowed(last.result)
    /\ \E c \in Callers : c # last.caller /\ pc[c] = "lock"
                          /\ frame[c].op = "try_acquire"

\* C5: a caller asleep inside acquire does not hold the mutex (which is held
\* only by a caller inside a call's critical section), so the calls of other
\* callers can start and complete while it sleeps.
C5_SleepWithoutLock ==
    /\ \A c \in Callers : pc[c] = "sleeping" => mutex # c
    /\ mutex # NoCaller => pc[mutex] \in InCall

\* try_acquire, available and reset have each started and completed while
\* another caller was asleep inside acquire, which still is
C5_Witness ==
    /\ lkObs.whileAsleep = {"try_acquire", "available", "reset"}
    /\ Sleepers # {}

\* ------------------------------------------------------------ calls in sequence
(***************************************************************************)
(* SpecSeq: one caller calls try_acquire, available and reset in any order *)
(* on an instance of any of the three strategies, the clock advancing in   *)
(* between.  (Calls are atomic, so what a sequence of calls returns does   *)
(* not depend on how many callers make them; acquire's attempts are        *)
(* try_acquire calls.)                                                     *)
(***************************************************************************)

\* TokenBucket::new / SlidingWindowLimiter::new / FixedWindowLimiter::new at t
New(cfg, t) ==
    [bucket |-> TB_new(cfg, t), sliding |-> SW_new(cfg), fixed |-> FW_new(cfg, t)]

\* The observer.  admitted: for the fixed window, the times of the Allowed
\* results later than now - window_size, since the latest reset; resetAt: when
\* the latest reset was called (None: never); twin: an instance constructed
\* by new at that time (at time 0 before any reset), which has received the
\* same calls since; agree: every call since returned the same on both;
\* short: how many permits short of burst_size the instance was when the
\* latest reset was called; prev: the call before the latest one ("none" if
\* the clock moved in between); said: what the latest available returned, while
\* only try_acquire calls, no more of them than it said, have followed it
\* (None otherwise); used: how many of them have.
SeqObsInit(cfg) ==
    [admitted |-> <<>>, resetAt |-> None, twin |-> New(cfg, 0), agree |-> TRUE,
     short |-> 0, prev |-> "none", said |-> None, used |-> 0]

\* does the latest available vouch for the next try_acquire
Vouched == obs.said # None /\ obs.used < obs.said

\* the log at clock value t
Recent(log, t) == SelectSeq(log, LAMBDA a : a > t - config.window_size)

SeqObsCall(op, out, t, t2) ==
    LET onTwin == Alone(op, obs.twin, t, t2)
    IN  IF op = "reset"
        THEN [admitted |-> <<>>, resetAt |-> t2, twin |-> New(config, t2),
              agree |-> TRUE,
              short |-> config.burst_size
                          - Alone("available", Instance, t2, t2).result,
              prev |-> last.op, said |-> None, used |-> 0]
        ELSE [admitted |->
                 IF strategy = "FixedWindow" /\ op = "try_acquire"
                    /\ is_allowed(out.result)
                 THEN Append(Recent(obs.admitted, t2), t2)
                 ELSE Recent(obs.admitted, t2),
              resetAt |-> obs.resetAt,
              twin |-> onTwin.inst,
              agree |-> obs.agree /\ onTwin.result = out.result,
              short |-> obs.short,
              prev |-> last.op,
              said |-> IF op = "available" THEN out.result
                       ELSE IF Vouched THEN obs.said ELSE None,
              used |-> IF op = "try_acquire" /\ Vouched THEN obs.used + 1 ELSE 0]

SeqInit ==
    /\ now = 0
    /\ strategy \in {"TokenBucket", "SlidingWindow", "FixedWindow"}
    /\ config \in IF strategy = "TokenBucket"
                  THEN ConfigsOf(0..MaxRate, 0..MaxBurst, {1})
                  ELSE ConfigsOf({1}, 0..MaxBurst, 0..MaxWindow)
    /\ bucket = TB_new(config, 0)
    /\ sliding = SW_new(config)
    /\ fixed = FW_new(config, 0)
    /\ pc = [c \in Callers |-> "idle"]
    /\ wake = [c \in Callers |-> 0]
    /\ last = NoCall
    /\ tbObs = None
    /\ swObs = None
    /\ fwObs = None
    /\ mutex = NoCaller
    /\ frame = [c \in Callers |-> NoFrame]
    /\ lkObs = None
    /\ obs = SeqObsInit(config)

SeqTick ==
    /\ now < MaxTime
    /\ now' = now + 1
    /\ last' = NoCall
    /\ obs' = [obs EXCEPT !.admitted = Recent(@, now + 1)]
    /\ UNCHANGED <<config, bucket, sliding, fixed, pc, wake, tbObs, swObs, fwObs,
                   strategy, mutex, frame, lkObs>>

\* The fixed window reads the clock a second time when it denies (t2).
SeqTryAcquire ==
    /\ \E t2 \in now..MaxTime :
          LET out == Alone("try_acquire", Instance, now, t2)
          IN  /\ t2 > now => strategy = "FixedWindow" /\ is_denied(out.result)
              /\ SetInstance(out.inst)
              /\ now' = t2
              /\ last' = Call("try_acquire", 1, out.result)
              /\ obs' = SeqObsCall("try_acquire", out, now, t2)
    /\ UNCHANGED <<config, pc, wake, tbObs, swObs, fwObs, strategy, mutex, frame,
                   lkObs>>

SeqAvailable ==
    /\ LET out == Alone("available", Instance, now, now)
       IN  /\ SetInstance(out.inst)
           /\ last' = Call("available", 1, out.result)
           /\ obs' = SeqObsCall("available", out, now, now)
    /\ UNCHANGED <<now, config, pc, wake, tbObs, swObs, fwObs, strategy, mutex,
                   frame, lkObs>>

SeqReset ==
    /\ LET out == Alone("reset", Instance, now, now)
       IN  /\ SetInstance(out.inst)
           /\ last' = Call("reset", 1, out.result)
           /\ obs' = SeqObsCall("reset", out, now, now)
    /\ UNCHANGED <<now, config, pc, wake, tbObs, swObs, fwObs, strategy, mutex,
                   frame, lkObs>>

SeqNext ==
    \/ SeqTick
    \/ SeqTryAcquire
    \/ SeqAvailable
    \/ SeqReset

SpecSeq == SeqInit /\ [][SeqNext]_vars

\* ------------------------------------------------------------ calls in sequence: claims

\* how many of the logged admissions were made in the current window
\* (inWindow) or before its start
CountLog(inWindow) ==
    Cardinality({i \in DOMAIN obs.admitted :
                    (obs.admitted[i] >= fixed.window_start) = inWindow})

\* C11: the fixed window does not prevent the boundary double burst: the
\* requests Allowed within a span shorter than window_size are at most burst
\* in the current window and at most burst before its start, 2 * burst in
\* all, and that many are reached (the witness): burst just before the
\* boundary and burst at the rollover.
C11_BoundaryDoubleBurst ==
    strategy = "FixedWindow" =>
        /\ Len(obs.admitted) <= 2 * config.burst_size
        /\ CountLog(TRUE) <= config.burst_size
        /\ CountLog(FALSE) <= config.burst_size

\* burst requests Allowed one tick before the first window's end, burst more
\* Allowed at the rollover: 2 * burst within a span shorter than the window
C11_Witness ==
    /\ strategy = "FixedWindow"
    /\ obs.resetAt = None
    /\ config.burst_size = MaxBurst
    /\ config.window_size >= 2
    /\ Len(obs.admitted) = 2 * config.burst_size
    /\ \A i \in 1..config.burst_size : obs.admitted[i] = config.window_size - 1
    /\ \A i \in (config.burst_size + 1)..(2 * config.burst_size) :
          obs.admitted[i] = config.window_size
    /\ fixed.window_start = config.window_size
    /\ now = config.window_size
    /\ last.op = "try_acquire" /\ is_allowed(last.result)

\* the state of the instance's own strategy
Part(inst) ==
    CASE strategy = "TokenBucket" -> inst.bucket
      [] strategy = "SlidingWindow" -> inst.sliding
      [] strategy = "FixedWindow" -> inst.fixed

C13_ResetIsNew ==
    /\ last.op = "reset" => Part(Instance) = Part(New(config, now))
    /\ obs.resetAt # None =>
          (obs.agree /\ Part(Instance) = Part(obs.twin))

\* an instance reset when it was short of permits has since been exhausted
\* again, as the instance constructed at the time of the reset has
C13_Witness ==
    /\ obs.resetAt # None /\ obs.resetAt > 0
    /\ obs.short > 0
    /\ now > obs.resetAt
    /\ last.op = "try_acquire" /\ is_denied(last.result)
    /\ Part(Instance) = Part(obs.twin)

\* C14: a try_acquire of the sliding or the fixed window that returns Denied
\* leaves the state as it was: no timestamp evicted or appended, count and
\* window_start unchanged.
C14_DeniedLeavesWindow ==
    [][(/\ strategy \in {"SlidingWindow", "FixedWindow"}
        /\ last'.op = "try_acquire"
        /\ is_denied(last'.result))
       => (sliding' = sliding /\ fixed' = fixed)]_vars

\* a sliding window holding timestamps of different ages, the oldest not yet
\* expired, has just denied a call
C14_Witness ==
    /\ strategy = "SlidingWindow"
    /\ last.op = "try_acquire" /\ is_denied(last.result)
    /\ last.result.wait_time > 0
    /\ Len(sliding.requests) = MaxBurst
    /\ sliding.requests[1] < sliding.requests[MaxBurst]
    /\ now > 0

\* C15 as stated: a Denied try_acquire of the token bucket leaves tokens and
\* last_refill as they were.
C15_Original ==
    [][(/\ strategy = "TokenBucket"
        /\ last'.op = "try_acquire"
        /\ is_denied(last'.result))
       => bucket' = bucket]_vars

\* C15 amended: a Denied try_acquire of the token bucket changes the state by
\* the refill only (last_refill = now, tokens raised by elapsed * rate up to
\* burst): no token is consumed.
C15_DeniedOnlyRefills ==
    [][(/\ strategy = "TokenBucket"
        /\ last'.op = "try_acquire"
        /\ is_denied(last'.result))
       => /\ bucket' = TB_refill(config, bucket, now)
          /\ bucket'.tokens >= bucket.tokens]_vars

\* the first call after the clock moved was Denied and has banked a part of
\* a token
C15_Witness ==
    /\ strategy = "TokenBucket"
    /\ last.op = "try_acquire" /\ is_denied(last.result)
    /\ obs.prev = "none"
    /\ bucket.last_refill = now /\ now > 0
    /\ bucket.tokens > 0 /\ bucket.tokens < One

\* ------------------------------------------------------------ acquire
(***************************************************************************)
(* SpecAcq: callers inside acquire's loop, other callers calling           *)
(* try_acquire, and acquire futures dropped while they sleep, on an        *)
(* instance of any strategy.  The clock has no end here: an Instant has no *)
(* absolute value, so once the clock reads Epoch a tick moves every stored *)
(* Instant one tick into the past instead, down to 0.  An Instant at 0 is  *)
(* at least Epoch old, and Epoch is old enough for that to be all that     *)
(* matters: a bucket that old is full (Epoch * rate >= burst), a timestamp *)
(* that old is expired and a window that old is over (Epoch > window), a   *)
(* deadline that old has passed.                                           *)
(* An attempt reads the clock once: the second reading of the fixed        *)
(* window's Denied branch can only shorten the wait, and a sleep ends at   *)
(* or after its deadline anyway.                                           *)
(***************************************************************************)
Epoch ==
    IF strategy = "TokenBucket"
    THEN (config.burst_size * One + config.requests_per_second - 1)
            \div config.requests_per_second
    ELSE config.window_size + 1

Shift(t) == IF t > 0 THEN t - 1 ELSE 0

ShiftInstance(inst) ==
    [bucket |-> [inst.bucket EXCEPT !.last_refill = Shift(@)],
     sliding |-> [requests |-> [i \in DOMAIN inst.sliding.requests |->
                                   Shift(inst.sliding.requests[i])]],
     fixed |-> [inst.fixed EXCEPT !.window_start = Shift(@)]]

\* The observer, per caller.  fate: of its latest acquire call ("none": it
\* has made none, "running", "ok": returned Ok(()), "err": returned without a
\* permit, "cancelled": dropped while asleep); spent: the attempts of that
\* call that changed the state beyond the bookkeeping (took a permit), up to
\* 2; denied: the Denied attempts of caller 1's latest acquire call, counted
\* up to MaxDenials.
AcqObsInit ==
    [fate |-> [c \in Callers |-> "none"],
     denied |-> 0,
     spent |-> [c \in Callers |-> 0]]

AcqObsAttempt(c, r, consumed, returned) ==
    LET starts == pc[c] = "idle"
        d == IF starts THEN 0 ELSE obs.denied
        n == IF starts THEN 0 ELSE obs.spent[c]
    IN  [fate |-> [obs.fate EXCEPT ![c] =
                      IF ~returned THEN "running"
                      ELSE IF is_allowed(r) THEN "ok" ELSE "err"],
         denied |-> IF c # 1 THEN obs.denied
                    ELSE IF is_denied(r) THEN Min(d + 1, MaxDenials) ELSE d,
         spent |-> [obs.spent EXCEPT ![c] =
                      IF consumed THEN Min(n + 1, 2) ELSE n]]

AcqInit ==
    /\ now = 0
    /\ strategy \in {"TokenBucket", "SlidingWindow", "FixedWindow"}
    /\ config \in IF strategy = "TokenBucket"
                  THEN ConfigsOf({1, MaxRate}, 0..MaxBurst, {1})
                  ELSE ConfigsOf({1}, 0..MaxBurst, 0..MaxWindow)
    /\ bucket = TB_new(config, 0)
    /\ sliding = SW_new(config)
    /\ fixed = FW_new(config, 0)
    /\ pc = [c \in Callers |-> "idle"]
    /\ wake = [c \in Callers |-> 0]
    /\ last = NoCall
    /\ tbObs = None
    /\ swObs = None
    /\ fwObs = None
    /\ mutex = NoCaller
    /\ frame = [c \in Callers |-> NoFrame]
    /\ lkObs = None
    /\ obs = AcqObsInit

AcqTick ==
    /\ IF now < Epoch
       THEN /\ now' = now + 1
            /\ UNCHANGED <<bucket, sliding, fixed, wake>>
       ELSE /\ now' = now
            /\ SetInstance(ShiftInstance(Instance))
            /\ wake' = [c \in Callers |-> Shift(wake[c])]
    /\ last' = NoCall
    /\ UNCHANGED <<config, pc, tbObs, swObs, fwObs, strategy, mutex, frame, lkObs,
                   obs>>

\* one turn of acquire's loop: the call, or a retry after the sleep
AcqAcquire(c) ==
    /\ CanAttempt(c)
    /\ LET out == Alone("try_acquire", Instance, now, now)
           consumed == out.inst # Book(Instance, now)
       IN  /\ SetInstance(out.inst)
           /\ last' = Call("acquire", c, out.result)
           /\ AfterAttempt(c, out.result, now)
           /\ obs' = AcqObsAttempt(c, out.result, consumed, pc'[c] = "idle")
    /\ UNCHANGED <<now, config, tbObs, swObs, fwObs, strategy, mutex, frame, lkObs>>

AcqTryAcquire(c) ==
    /\ pc[c] = "idle"
    /\ LET out == Alone("try_acquire", Instance, now, now)
       IN  /\ SetInstance(out.inst)
           /\ last' = Call("try_acquire", c, out.result)
    /\ UNCHANGED <<now, config, pc, wake, tbObs, swObs, fwObs, strategy, mutex,
                   frame, lkObs, obs>>

\* the future of an acquire call is dropped at its await point, the sleep
AcqCancel(c) ==
    /\ pc[c] = "sleeping"
    /\ pc' = [pc EXCEPT ![c] = "idle"]
    /\ wake' = [wake EXCEPT ![c] = 0]
    /\ obs' = [obs EXCEPT !.fate[c] = "cancelled"]
    /\ last' = NoCall
    /\ UNCHANGED <<now, config, bucket, sliding, fixed, tbObs, swObs, fwObs,
                   strategy, mutex, frame, lkObs>>

AcqNext ==
    \/ AcqTick
    \/ \E c \in Callers : AcqAcquire(c)
    \/ \E c \in Callers : AcqTryAcquire(c)
    \/ \E c \in Callers : AcqCancel(c)

SpecAcq == AcqInit /\ [][AcqNext]_vars

\* ------------------------------------------------------------ acquire: claims

\* C16: denial never ends acquire: an attempt that is Denied, however many
\* were before it, leaves the caller asleep inside the loop, no acquire call
\* ever returns without a permit, and a step in which an acquire call
\* returns is an Allowed attempt of that very call, which returns Ok(()).
C16_AcquireRetries ==
    [][\A c \in Callers :
        /\ (last'.op = "acquire" /\ last'.caller = c /\ is_denied(last'.result))
              => (pc'[c] = "sleeping" /\ obs'.fate[c] = "running")
        /\ (pc[c] = "sleeping" /\ pc'[c] = "idle" /\ obs'.fate[c] # "cancelled")
              => (last' = Call("acquire", c, Allowed) /\ obs'.fate[c] = "ok")
        /\ (last'.op = "acquire" /\ last'.caller = c /\ pc'[c] = "idle")
              => (is_allowed(last'.result) /\ obs'.fate[c] = "ok")
        /\ obs'.fate[c] # "err"]_vars

\* caller 1's acquire has returned Ok(()) on an Allowed attempt after
\* MaxDenials (or more) Denied ones
C16_Witness ==
    /\ last = Call("acquire", 1, Allowed)
    /\ obs.fate[1] = "ok"
    /\ obs.denied = MaxDenials
    /\ pc[1] = "idle"

\* C19: an acquire call that is still waiting or was dropped while it waited
\* has taken no permit, and one that returned Ok(()) has taken exactly one.
C19_CancelledTakesNothing ==
    \A c \in Callers :
        /\ obs.fate[c] \in {"running", "cancelled"} => obs.spent[c] = 0
        /\ obs.fate[c] = "ok" => obs.spent[c] = 1

\* caller 1's acquire was dropped after MaxDenials Denied attempts, having
\* taken nothing, while another caller's acquire returned with its one permit
C19_Witness ==
    /\ obs.fate[1] = "cancelled"
    /\ obs.denied = MaxDenials
    /\ obs.spent[1] = 0
    /\ \E c \in Callers : obs.fate[c] = "ok" /\ obs.spent[c] = 1

\* ------------------------------------------------------------ acquire under overload
(***************************************************************************)
(* SpecStarve: the behaviours of SpecAcq in which the callers other than   *)
(* caller 1 take every permit as it becomes available (before the clock    *)
(* moves on and before caller 1's turn), and caller 1 calls acquire.  The  *)
(* clock advances (WF), a free permit is taken (WF), and caller 1, whose   *)
(* sleep ends at or after its deadline, gets its turn again and again      *)
(* (SF).  A fixed window of size 0 never denies and cannot be overloaded.  *)
(***************************************************************************)

\* a try_acquire made now would be Allowed
PermitFree == is_allowed(Alone("try_acquire", Instance, now, now).result)

StarveInit ==
    /\ AcqInit
    /\ ~(strategy = "FixedWindow" /\ config.window_size = 0)

StarveTick == ~PermitFree /\ AcqTick

StarveHog(c) == c # 1 /\ PermitFree /\ AcqTryAcquire(c)

StarveWaiter == ~PermitFree /\ AcqAcquire(1)

StarveNext ==
    \/ StarveTick
    \/ \E c \in Callers : StarveHog(c)
    \/ StarveWaiter

SpecStarve ==
    /\ StarveInit
    /\ [][StarveNext]_vars
    /\ WF_vars(StarveTick)
    /\ WF_vars(\E c \in Callers : StarveHog(c))
    /\ SF_vars(StarveWaiter)

\* C17: nothing but timing decides who gets a permit: when the other callers
\* take every permit as it becomes available, the clock keeps advancing, they
\* keep being Allowed, and caller 1's acquire keeps making attempts, is Denied
\* on every one of them and never returns.
C17_Starvation ==
    /\ []<>(last = NoCall)
    /\ []<>(last.op = "try_acquire" /\ is_allowed(last.result))
    /\ []<>(last.op = "acquire" /\ last.caller = 1 /\ is_denied(last.result))
    /\ [](last.op = "acquire" => is_denied(last.result))
    /\ [](obs.fate[1] # "ok")

\* the clock has reached Epoch, caller 1 is asleep in acquire after
\* MaxDenials (or more) Denied attempts, and another caller has just been
\* Allowed
C17_Witness ==
    /\ now = Epoch
    /\ pc[1] = "sleeping" /\ obs.fate[1] = "running"
    /\ obs.denied = MaxDenials
    /\ last.op = "try_acquire" /\ last.caller # 1 /\ is_allowed(last.result)

\* ------------------------------------------------------------ acquire with no competitor
(***************************************************************************)
(* SpecFair: the behaviours of SpecAcq in which each caller calls acquire  *)
(* at most once and nothing else is called.  The clock keeps advancing     *)
(* (WF), and a caller whose sleep is over gets to retry (WF: the timer     *)
(* fires and the runtime polls the task).                                  *)
(***************************************************************************)
FairAcquire(c) ==
    /\ pc[c] = "idle" => obs.fate[c] = "none"
    /\ AcqAcquire(c)

FairRetry(c) == pc[c] = "sleeping" /\ FairAcquire(c)

FairNext ==
    \/ AcqTick
    \/ \E c \in Callers : FairAcquire(c)

SpecFair ==
    /\ AcqInit
    /\ [][FairNext]_vars
    /\ WF_vars(AcqTick)
    /\ \A c \in Callers : WF_vars(FairRetry(c))

\* C18: with finitely many acquire calls outstanding, nothing else consuming
\* permits and the clock advancing, every acquire call that has started
\* eventually returns Ok(()), for each strategy.
C18_AcquireReturns ==
    \A c \in Callers : (obs.fate[c] = "running") ~> (obs.fate[c] = "ok")

\* every caller's acquire has returned Ok(()), caller 1's after MaxDenials
\* (or more) Denied attempts
C18_Witness ==
    /\ \A c \in Callers : obs.fate[c] = "ok"
    /\ obs.denied = MaxDenials
    /\ last = Call("acquire", 1, Allowed)

\* ------------------------------------------------------------ RateLimitConfig
(***************************************************************************)
(* SpecCfg: a caller holding a config calls the constructors with          *)
(* arguments of every kind: negative, zero, positive and NaN rates, zero   *)
(* and positive bursts.  config is the config it holds (the latest one     *)
(* constructed), last the latest call with its arguments and result.       *)
(***************************************************************************)
\* the f64 arguments tried, in units; per_minute and per_hour divide them
F64s == ((0 - MaxRate)..MaxRate) \cup {NaN}
Scaled(x, d) == IF is_nan(x) THEN NaN ELSE x * d
\* the arguments tried on a constructor that divides by d: those the division
\* is exact on, and the smallest positive ones, on which it underflows
PeriodArgs(d) == {Scaled(r, d) : r \in F64s} \cup (1..MaxRate)

CfgCall(op, args, r) == [op |-> op, caller |-> NoCaller, result |-> r, args |-> args]

CfgInit ==
    /\ config = RateLimitConfig_default
    /\ last = CfgCall("default", <<>>, Ok(RateLimitConfig_default))
    /\ now = 0
    /\ strategy = "none"
    /\ bucket = None
    /\ sliding = None
    /\ fixed = None
    /\ pc = [c \in Callers |-> "idle"]
    /\ wake = [c \in Callers |-> 0]
    /\ tbObs = None
    /\ swObs = None
    /\ fwObs = None
    /\ mutex = NoCaller
    /\ frame = [c \in Callers |-> NoFrame]
    /\ lkObs = None
    /\ obs = None

\* the caller keeps the config when the constructor returns Ok
Held(r) == IF r.ok THEN r.value ELSE config

cfgFixed ==
    <<now, bucket, sliding, fixed, pc, wake, tbObs, swObs, fwObs, strategy,
      mutex, frame, lkObs, obs>>

CfgNew ==
    \E r \in F64s, b \in 0..MaxBurst, w \in 0..MaxWindow :
        /\ last' = CfgCall("new", <<r, b, w>>, RateLimitConfig_new(r, b, w))
        /\ config' = Held(RateLimitConfig_new(r, b, w))
        /\ UNCHANGED cfgFixed

CfgPerSecond ==
    \E r \in F64s :
        /\ last' = CfgCall("per_second", <<r>>, RateLimitConfig_per_second(r))
        /\ config' = Held(RateLimitConfig_per_second(r))
        /\ UNCHANGED cfgFixed

CfgPerMinute ==
    \E x \in PeriodArgs(SecsPerMinute) :
        /\ last' = CfgCall("per_minute", <<x>>, RateLimitConfig_per_minute(x))
        /\ config' = Held(RateLimitConfig_per_minute(x))
        /\ UNCHANGED cfgFixed

CfgPerHour ==
    \E x \in PeriodArgs(SecsPerHour) :
        /\ last' = CfgCall("per_hour", <<x>>, RateLimitConfig_per_hour(x))
        /\ config' = Held(RateLimitConfig_per_hour(x))
        /\ UNCHANGED cfgFixed

CfgDefault ==
    /\ last' = CfgCall("default", <<>>, Ok(RateLimitConfig_default))
    /\ config' = RateLimitConfig_default
    /\ UNCHANGED cfgFixed

CfgNext ==
    \/ CfgNew
    \/ CfgPerSecond
    \/ CfgPerMinute
    \/ CfgPerHour
    \/ CfgDefault

SpecCfg == CfgInit /\ [][CfgNext]_vars

\* C20 as stated: new returns InvalidConfig exactly when rate <= 0 or
\* burst == 0 and otherwise a config holding the three values given, and
\* every config produced by new, per_second, per_minute, per_hour or default
\* has rate > 0 and burst > 0.
C20_Original ==
    /\ last.op = "new" =>
          /\ ~last.result.ok <=> (f64_le(last.args[1], 0) \/ last.args[2] = 0)
          /\ ~last.result.ok => last.result.kind = "InvalidConfig"
          /\ last.result.ok =>
                last.result.value = [requests_per_second |-> last.args[1],
                                     burst_size |-> last.args[2],
                                     window_size |-> last.args[3]]
    /\ last.result.ok =>
          /\ f64_gt(last.result.value.requests_per_second, 0)
          /\ last.result.value.burst_size > 0

\* the period a derived constructor divides by
Period(op) ==
    CASE op = "per_second" -> 1
      [] op = "per_minute" -> SecsPerMinute
      [] op = "per_hour" -> SecsPerHour

IsDerived(l) == l.op \in {"per_second", "per_minute", "per_hour"}

\* what C21 says of an Ok result: rate = r / period, burst = ceil(r),
\* window = one period
DerivedValue(l) ==
    /\ l.result.value.requests_per_second * Period(l.op) = l.args[1]
    /\ l.result.value.burst_size * One >= l.args[1]
    /\ (l.result.value.burst_size - 1) * One < l.args[1]
    /\ l.result.value.window_size = Period(l.op)

\* C21 as stated: per_second(r), per_minute(r) and per_hour(r) return rate =
\* r / 1, 60, 3600, burst = ceil(r) and window = 1 s, 60 s, 3600 s, and fail
\* with InvalidConfig exactly when r <= 0.
C21_Original ==
    IsDerived(last) =>
        /\ ~last.result.ok <=> f64_le(last.args[1], 0)
        /\ ~last.result.ok => last.result.kind = "InvalidConfig"
        /\ last.result.ok => DerivedValue(last)

\* C21, amended: the derived constructors return rate = r / period, burst =
\* ceil(r) and window = one period, and fail with InvalidConfig exactly when
\* r is not greater than zero (r <= 0 or r is NaN) or r / period rounds to
\* zero.
C21_DerivedConstructors ==
    IsDerived(last) =>
        /\ ~last.result.ok <=>
              \/ ~f64_gt(last.args[1], 0)
              \/ f64_div(last.args[1], Period(last.op)) = 0
        /\ ~last.result.ok => last.result.kind = "InvalidConfig"
        /\ last.result.ok => DerivedValue(last)

\* per_hour of the largest argument tried: Ok, the rate divided by the
\* seconds of an hour, the burst not divided
C21_Witness ==
    /\ last.op = "per_hour"
    /\ last.result.ok
    /\ last.result.value.requests_per_second = MaxRate
    /\ last.result.value.burst_size * One = MaxRate * SecsPerHour
    /\ last.result.value.window_size = SecsPerHour

\* ------------------------------------------------------------ available: claims

\* C22: available never overstates: under SpecSeq (one caller, nobody else
\* touching the instance) the n try_acquire calls that follow an available
\* that returned n are all Allowed, whenever they are made, and a try_acquire
\* at the instant available returned 0 is Denied; for all three strategies.
C22_AvailableIsConservative ==
    [][ last'.op = "try_acquire" =>
          /\ Vouched => is_allowed(last'.result)
          /\ (last.op = "available" /\ last.result = 0) => is_denied(last'.result)
      ]_vars

\* available said MaxBurst, and MaxBurst try_acquire calls, the clock moving
\* in between, have been Allowed
C22_Witness ==
    /\ obs.said = MaxBurst
    /\ obs.used = MaxBurst
    /\ obs.prev = "none"
    /\ is_allowed(last.result)
    /\ last.op = "try_acquire"

\* ------------------------------------------------------------ several instances
(***************************************************************************)
(* SpecTwo: a program holding NumInstances limiters, of any strategies and *)
(* configs, and calling them in any order.  Here strategy, config, bucket, *)
(* sliding and fixed are functions of the instance: each struct owns its   *)
(* config and the Mutex around its state, and the crate has no static.     *)
(* The clock is the one thing the instances share.                         *)
(***************************************************************************)
Insts == 1..NumInstances
NoInst == 0

\* a process-wide state that every instance's methods reach
Own_Global(i) == 1

\* self: the struct whose config and state a method called on instance i reaches
Own(i) == i

\* the instance as one value
Inst(i) ==
    [kind |-> strategy[i], config |-> config[i], bucket |-> bucket[i],
     sliding |-> sliding[i], fixed |-> fixed[i]]

\* op called on the instance inst, reading the clock as t and then as t2
On(inst, op, t, t2) ==
    CASE inst.kind = "TokenBucket" ->
            IF op = "reset"
            THEN [inst |-> [inst EXCEPT !.bucket = TB_reset(inst.config, @, t2)],
                  result |-> Allowed]
            ELSE LET out == IF op = "available"
                            THEN TB_available(inst.config, inst.bucket, t)
                            ELSE TB_try_acquire(inst.config, inst.bucket, t)
                 IN  [inst |-> [inst EXCEPT !.bucket = out.state],
                      result |-> out.result]
      [] inst.kind = "SlidingWindow" ->
            IF op = "reset"
            THEN [inst |-> [inst EXCEPT !.sliding = SW_reset(inst.config, @)],
                  result |-> Allowed]
            ELSE LET out == IF op = "available"
                            THEN SW_available(inst.config, inst.sliding, t)
                            ELSE SW_try_acquire(inst.config, inst.sliding, t)
                 IN  [inst |-> [inst EXCEPT !.sliding = out.state],
                      result |-> out.result]
      [] inst.kind = "FixedWindow" ->
            IF op = "reset"
            THEN [inst |-> [inst EXCEPT !.fixed = FW_reset(inst.config, @, t2)],
                  result |-> Allowed]
            ELSE LET out == IF op = "available"
                            THEN FW_available(inst.config, inst.fixed, t)
                            ELSE FW_try_acquire(inst.config, inst.fixed, t, t2)
                 IN  [inst |-> [inst EXCEPT !.fixed = out.state],
                      result |-> out.result]

\* the configs tried for a strategy
TwoConfigs(kind) ==
    IF kind = "TokenBucket"
    THEN ConfigsOf({One}, {MaxBurst}, {1})
    ELSE ConfigsOf({1}, {MaxBurst}, {1})

\* The observer.  twin: per instance, an instance constructed alike that is
\* alone in its program and has received the calls made on the instance, at
\* the same clock values; agree: every call so far returned on the instance
\* what it returned on the twin, and left every instance as its twin is.
TwoObsInit == [twin |-> [i \in Insts |-> Inst(i)], agree |-> TRUE]

TwoInit ==
    /\ now = 0
    /\ strategy \in [Insts -> {"TokenBucket", "SlidingWindow", "FixedWindow"}]
    /\ config \in [Insts -> UNION {TwoConfigs(k) :
                        k \in {"TokenBucket", "SlidingWindow", "FixedWindow"}}]
    /\ \A i \in Insts : config[i] \in TwoConfigs(strategy[i])
    /\ bucket = [i \in Insts |-> TB_new(config[i], 0)]
    /\ sliding = [i \in Insts |-> SW_new(config[i])]
    /\ fixed = [i \in Insts |-> FW_new(config[i], 0)]
    /\ pc = [c \in Callers |-> "idle"]
    /\ wake = [c \in Callers |-> 0]
    /\ last = [op |-> "none", caller |-> NoCaller, result |-> Allowed, inst |-> NoInst]
    /\ tbObs = None
    /\ swObs = None
    /\ fwObs = None
    /\ mutex = NoCaller
    /\ frame = [c \in Callers |-> NoFrame]
    /\ lkObs = None
    /\ obs = TwoObsInit

twoFixed == <<config, pc, wake, tbObs, swObs, fwObs, strategy, mutex, frame, lkObs>>

TwoTick ==
    /\ now < LkMaxTime
    /\ now' = now + 1
    /\ last' = [op |-> "none", caller |-> NoCaller, result |-> Allowed, inst |-> NoInst]
    /\ UNCHANGED <<bucket, sliding, fixed, obs>>
    /\ UNCHANGED twoFixed

\* op called on instance i: the method works on the struct it is called on
TwoCall(i, op, t2) ==
    LET out == On(Inst(Own(i)), op, now, t2)
        onTwin == On(obs.twin[i], op, now, t2)
    IN  /\ t2 > now => out.inst.kind = "FixedWindow" /\ op = "try_acquire"
                        /\ is_denied(out.result)
        /\ bucket' = [bucket EXCEPT ![Own(i)] = out.inst.bucket]
        /\ sliding' = [sliding EXCEPT ![Own(i)] = out.inst.sliding]
        /\ fixed' = [fixed EXCEPT ![Own(i)] = out.inst.fixed]
        /\ now' = t2
        /\ last' = [op |-> op, caller |-> 1, result |-> out.result, inst |-> i]
        /\ UNCHANGED twoFixed
        /\ obs' = [twin |-> [obs.twin EXCEPT ![i] = onTwin.inst],
                   agree |-> /\ obs.agree
                             /\ onTwin.result = out.result
                             /\ \A j \in Insts :
                                   IF j = i THEN Inst(j)' = onTwin.inst
                                   ELSE Inst(j)' = obs.twin[j]]

TwoTryAcquire == \E i \in Insts, t2 \in now..LkMaxTime : TwoCall(i, "try_acquire", t2)

TwoAvailable == \E i \in Insts : TwoCall(i, "available", now)

TwoReset == \E i \in Insts : TwoCall(i, "reset", now)

TwoNext ==
    \/ TwoTick
    \/ TwoTryAcquire
    \/ TwoAvailable
    \/ TwoReset

SpecTwo == TwoInit /\ [][TwoNext]_vars

\* C23: distinct instances are independent: a call on one instance leaves
\* every other instance as it was (and the clock's ticks leave them all), and
\* every call returns what it returns on an instance that is alone in its
\* program, was constructed with the same config and has received the same
\* calls at the same clock values.
C23_InstancesIndependent ==
    [][ /\ \A j \in Insts : j # last'.inst => Inst(j)' = Inst(j)
        /\ obs'.agree
      ]_vars

\* two instances of one strategy and one config: the first is exhausted (it
\* would deny) when the second, called at that instant, allows
C23_Witness ==
    /\ strategy[1] = strategy[2]
    /\ config[1] = config[2]
    /\ last.inst = 2
    /\ last.op = "try_acquire"
    /\ is_allowed(last.result)
    /\ is_denied(On(Inst(1), "try_acquire", now, now).result)
    /\ obs.twin[1] # obs.twin[2]

\* C24: FixedWindowLimiter::available applies the rollover check and returns
\* burst - count; and within one window an Allowed try_acquire lowers what
\* available returns by exactly one, a Denied one leaves it as it was.
C24_FixedWindowAvailable ==
    [][ strategy = "FixedWindow" =>
          /\ last'.op = "available" =>
                /\ fixed' = FW_maybe_reset_window(config, fixed, now)
                /\ last'.result = config.burst_size - fixed'.count
          /\ (/\ last'.op = "try_acquire"
              /\ now' - fixed'.window_start < config.window_size) =>
                LET before == FW_available(config, fixed, now).result
                    after == FW_available(config, fixed', now').result
                IN  IF is_allowed(last'.result)
                    THEN after = before - 1
                    ELSE after = before
      ]_vars

\* in a window later than the first, available said MaxBurst - 1 and the
\* try_acquire after it was Allowed and filled the window
C24_Witness ==
    /\ strategy = "FixedWindow"
    /\ fixed.window_start > 0
    /\ now < fixed.window_start + config.window_size
    /\ obs.said = MaxBurst - 1
    /\ obs.used = 1
    /\ last.op = "try_acquire"
    /\ is_allowed(last.result)
    /\ fixed.count = MaxBurst

\* ------------------------------------------------------------ slow rates
(***************************************************************************)
(* SpecWait: a TokenBucket whose config is any that RateLimitConfig::new   *)
(* accepts, the rates included at which one token takes about as long to   *)
(* refill as the longest Duration, or longer.                              *)
(***************************************************************************)
\* one token per DurationMax + 1 ticks, and one per half of that
SlowRates == {Frac(2^(DurationBits - 3)), Frac(2^(DurationBits - 2))}

\* The observer.  since[s]: how many results so far were Allowed at clock
\* values from s on.
WaitObsInit == [since |-> [s \in 0..MaxTime |-> 0]]

WaitObsCall(r) ==
    IF is_allowed(r)
    THEN [since |-> [s \in 0..MaxTime |->
                        IF s <= now THEN obs.since[s] + 1 ELSE obs.since[s]]]
    ELSE obs

WaitInit ==
    /\ now = 0
    /\ strategy = "TokenBucket"
    /\ config \in ConfigsOf({0, 1, MaxRate} \cup SlowRates, 0..MaxBurst, {1})
    /\ bucket = TB_new(config, 0)
    /\ sliding = SW_new(config)
    /\ fixed = FW_new(config, 0)
    /\ pc = [c \in Callers |-> "idle"]
    /\ wake = [c \in Callers |-> 0]
    /\ last = NoCall
    /\ tbObs = None
    /\ swObs = None
    /\ fwObs = None
    /\ mutex = NoCaller
    /\ frame = [c \in Callers |-> NoFrame]
    /\ lkObs = None
    /\ obs = WaitObsInit

WaitTick ==
    /\ now < MaxTime
    /\ now' = now + 1
    /\ last' = NoCall
    /\ UNCHANGED <<config, bucket, sliding, fixed, pc, wake, tbObs, swObs, fwObs,
                   strategy, mutex, frame, lkObs, obs>>

WaitTryAcquire(c) ==
    /\ pc[c] = "idle"
    /\ LET out == TB_try_acquire(config, bucket, now)
       IN  /\ bucket' = out.state
           /\ last' = Call("try_acquire", c, out.result)
           /\ obs' = WaitObsCall(out.result)
    /\ UNCHANGED <<now, config, sliding, fixed, pc, wake, tbObs, swObs, fwObs,
                   strategy, mutex, frame, lkObs>>

\* acquire: an attempt; a panic inside try_acquire ends the call (the task)
WaitAcquire(c) ==
    /\ CanAttempt(c)
    /\ LET out == TB_try_acquire(config, bucket, now)
       IN  /\ bucket' = out.state
           /\ last' = Call("acquire", c, out.result)
           /\ obs' = WaitObsCall(out.result)
           /\ IF out.result = Panic
              THEN /\ pc' = [pc EXCEPT ![c] = "idle"]
                   /\ wake' = [wake EXCEPT ![c] = 0]
              ELSE AfterAttempt(c, out.result, now)
    /\ UNCHANGED <<now, config, sliding, fixed, tbObs, swObs, fwObs,
                   strategy, mutex, frame, lkObs>>

WaitNext ==
    \/ WaitTick
    \/ \E c \in Callers : WaitTryAcquire(c)
    \/ \E c \in Callers : WaitAcquire(c)

SpecWait == WaitInit /\ [][WaitNext]_vars

\* C28 as stated: a try_acquire of the TokenBucket that is not Allowed returns
\* Denied (computing the wait never fails), with wait_time equal to
\* (1 - tokens) / rate, tokens taken after the refill step, and for every
\* valid rate, however small, this wait_time is strictly positive and at
\* most 1 / rate.
C28_Original ==
    (IsTry(last) /\ ~is_allowed(last.result)) =>
        /\ is_denied(last.result)
        /\ last.result.wait_time
              = RoundDiv((One - bucket.tokens) * f64_den(config.requests_per_second),
                         f64_num(config.requests_per_second))
        /\ last.result.wait_time > 0
        /\ last.result.wait_time * f64_num(config.requests_per_second)
              <= One * f64_den(config.requests_per_second)

\* the field of RateLimitConfig that an InvalidConfig message names
FieldNamed(msg) ==
    CASE msg = "requests_per_second must be positive" -> "requests_per_second"
      [] msg = "burst_size must be positive" -> "burst_size"
      [] OTHER -> "none"

\* C29: the InvalidConfig returned by RateLimitConfig::new names the violated
\* field: requests_per_second when rate <= 0 (whatever the burst), burst_size
\* when rate > 0 and burst == 0.
C29_ErrorNamesField ==
    last.op = "new" =>
        /\ f64_le(last.args[1], 0) =>
              /\ ~last.result.ok
              /\ last.result.kind = "InvalidConfig"
              /\ FieldNamed(last.result.msg) = "requests_per_second"
        /\ (f64_gt(last.args[1], 0) /\ last.args[2] = 0) =>
              /\ ~last.result.ok
              /\ last.result.kind = "InvalidConfig"
              /\ FieldNamed(last.result.msg) = "burst_size"

\* new called with a negative rate and a zero burst: both fields are wrong,
\* and the error names the rate
C29_Witness ==
    /\ last.op = "new"
    /\ f64_le(last.args[1], 0 - 1)
    /\ last.args[2] = 0
    /\ ~last.result.ok
    /\ FieldNamed(last.result.msg) = "requests_per_second"

PollRates == {1, MaxRate, Ratio(One, One - 1)}
\* the token bucket's bursts: the small ones and the first that is not an f64
PollBursts == (1..MaxBurst) \cup {F64Exact + 1}

\* The observer.  quiet: an instance constructed with the same config at the
\* same time, which has received the same try_acquire calls at the same clock
\* values and no available call; same: every try_acquire so far returned on
\* it what it returned on the instance; dry: for the token bucket, since when,
\* with no admission in between, it has held less than one token (None: it is
\* not known to); calls: how many calls have been made (counted up to 2).
PollObsInit(cfg) ==
    [quiet |-> New(cfg, 0), same |-> TRUE, dry |-> None, calls |-> 0]

PollObsCall(op, out, t, t2) ==
    LET onQuiet == Alone(op, obs.quiet, t, t2)
    IN  [quiet |-> IF op = "available" THEN obs.quiet ELSE onQuiet.inst,
         same |-> obs.same /\ (op = "available" \/ onQuiet.result = out.result),
         dry |-> IF strategy # "TokenBucket" \/ out.inst.bucket.tokens >= One
                 THEN None
                 ELSE IF op = "try_acquire" /\ is_allowed(out.result) THEN t
                 ELSE IF obs.dry = None THEN t
                 ELSE obs.dry,
         calls |-> Min(obs.calls + 1, 2)]

PollInit ==
    /\ now = 0
    /\ strategy \in {"TokenBucket", "SlidingWindow", "FixedWindow"}
    /\ config \in IF strategy = "TokenBucket"
                  THEN ConfigsOf(PollRates, PollBursts, {1})
                  ELSE ConfigsOf({1}, 1..MaxBurst, 1..MaxWindow)
    /\ bucket = TB_new(config, 0)
    /\ sliding = SW_new(config)
    /\ fixed = FW_new(config, 0)
    /\ pc = [c \in Callers |-> "idle"]
    /\ wake = [c \in Callers |-> 0]
    /\ last = NoCall
    /\ tbObs = None
    /\ swObs = None
    /\ fwObs = None
    /\ mutex = NoCaller
    /\ frame = [c \in Callers |-> NoFrame]
    /\ lkObs = None
    /\ obs = PollObsInit(config)

pollFixed ==
    <<config, pc, wake, tbObs, swObs, fwObs, strategy, mutex, frame, lkObs>>

PollTick ==
    /\ now < MaxTime
    /\ now' = now + 1
    /\ last' = NoCall
    /\ UNCHANGED <<bucket, sliding, fixed, obs>>
    /\ UNCHANGED pollFixed

\* The fixed window reads the clock a second time when it denies (t2).
PollTryAcquire ==
    /\ \E t2 \in now..MaxTime :
          LET out == Alone("try_acquire", Instance, now, t2)
          IN  /\ t2 > now => strategy = "FixedWindow" /\ is_denied(out.result)
              /\ SetInstance(out.inst)
              /\ now' = t2
              /\ last' = Call("try_acquire", 1, out.result)
              /\ obs' = PollObsCall("try_acquire", out, now, t2)
    /\ UNCHANGED pollFixed

PollAvailable ==
    /\ LET out == Alone("available", Instance, now, now)
       IN  /\ SetInstance(out.inst)
           /\ last' = Call("available", 1, out.result)
           /\ obs' = PollObsCall("available", out, now, now)
    /\ UNCHANGED now
    /\ UNCHANGED pollFixed

PollNext ==
    \/ PollTick
    \/ PollTryAcquire
    \/ PollAvailable

SpecPoll == PollInit /\ [][PollNext]_vars

\* ------------------------------------------------------------ polling: claims

\* is the call just made a poll of the token bucket: an available, or a
\* try_acquire that was Denied
IsPoll(l) ==
    \/ l.op = "available"
    \/ l.op = "try_acquire" /\ is_denied(l.result)

\* C31: the token bucket's refill is additive in the elapsed time: after a
\* poll (an available or a Denied try_acquire) a refill at any later time
\* gives the token count it would have given without the poll, and a
\* try_acquire at any later time is Allowed exactly when it would have been
\* without the poll.
C31_Original ==
    [][(strategy = "TokenBucket" /\ IsPoll(last'))
       => \A t \in now'..MaxTime :
            /\ TB_refill(config, bucket', t).tokens
                 = TB_refill(config, bucket, t).tokens
            /\ is_allowed(TB_try_acquire(config, bucket', t).result)
                 = is_allowed(TB_try_acquire(config, bucket, t).result)]_vars

\* C32: when the token bucket's try_acquire returns Denied with wait_time w
\* at time t and no other call is made in between, a try_acquire at any time
\* from t + w on is Allowed.
C32_Original ==
    [][(/\ strategy = "TokenBucket"
        /\ last'.op = "try_acquire"
        /\ is_denied(last'.result))
       => \A t \in now'..MaxTime :
            t >= now' + last'.result.wait_time
               => is_allowed(TB_try_acquire(config, bucket', t).result)]_vars

\* C33: when the fixed window's try_acquire returns Denied, wait_time is
\* window_start + window_size - now, now being the clock value of the call's
\* rollover check, and 0 < wait_time <= window_size.
C33_Original ==
    [][(/\ strategy = "FixedWindow"
        /\ last'.op = "try_acquire"
        /\ is_denied(last'.result))
       => /\ last'.result.wait_time
               = fixed'.window_start + config.window_size - now
          /\ last'.result.wait_time > 0
          /\ last'.result.wait_time <= config.window_size]_vars

\* C35: available() is read-only to an observer, for each strategy: every
\* try_acquire of a sequence of calls returns what it returns in the same
\* sequence without its available() calls.
C35_Original == obs.same

\* C7, the refill rounding as the f64 product does: once the bucket has held
\* less than one token and at least 1/rate has elapsed since, with no
\* admission in between, available() returns at least 1 and try_acquire is
\* Allowed.
C7_Original ==
    [][(/\ strategy = "TokenBucket"
        /\ obs.dry # None
        /\ (now - obs.dry) * f64_num(config.requests_per_second)
             >= One * f64_den(config.requests_per_second))
       => /\ (last'.op = "available" => last'.result >= 1)
          /\ (last'.op = "try_acquire" => is_allowed(last'.result))]_vars

SpanObsInit == [admitted |-> <<>>, rolled |-> FALSE]

\* the entries of log made at t - window_size or later
InSpan(log, t) == SelectSeq(log, LAMBDA a : a >= t - config.window_size)

\* the last n entries of log
Latest(log, n) ==
    IF Len(log) <= n THEN log ELSE SubSeq(log, Len(log) - n + 1, Len(log))

SpanObsCall(c, r, t2) ==
    [admitted |->
        Latest(IF is_allowed(r)
               THEN Append(InSpan(obs.admitted, t2), t2)
               ELSE InSpan(obs.admitted, t2),
               2 * config.burst_size + 1),
     rolled |-> WindowOver]

SpanInit ==
    /\ now = 0
    /\ strategy = "FixedWindow"
    /\ config \in ConfigsOf({1}, 1..MaxBurst, 0..MaxWindow)
    /\ bucket = TB_new(config, 0)
    /\ sliding = SW_new(config)
    /\ fixed = FW_new(config, 0)
    /\ pc = [c \in Callers |-> "idle"]
    /\ wake = [c \in Callers |-> 0]
    /\ last = NoCall
    /\ tbObs = None
    /\ swObs = None
    /\ fwObs = None
    /\ mutex = NoCaller
    /\ frame = [c \in Callers |-> NoFrame]
    /\ lkObs = None
    /\ obs = SpanObsInit

spanFixed ==
    <<config, bucket, sliding, tbObs, swObs, fwObs, strategy, mutex, frame, lkObs>>

SpanTick ==
    /\ now < MaxTime
    /\ now' = now + 1
    /\ last' = NoCall
    /\ obs' = [admitted |-> InSpan(obs.admitted, now + 1), rolled |-> FALSE]
    /\ UNCHANGED <<fixed, pc, wake>>
    /\ UNCHANGED spanFixed

\* t2: the clock read by calculate_wait_time when the call is denied
SpanTryAcquire(c) ==
    /\ pc[c] = "idle"
    /\ \E t2 \in now..MaxTime :
          LET out == FW_try_acquire(config, fixed, now, t2)
          IN  /\ is_allowed(out.result) => t2 = now
              /\ fixed' = out.state
              /\ now' = t2
              /\ last' = Call("try_acquire", c, out.result)
              /\ obs' = SpanObsCall(c, out.result, t2)
    /\ UNCHANGED <<pc, wake>>
    /\ UNCHANGED spanFixed

SpanAvailable(c) ==
    /\ pc[c] = "idle"
    /\ LET out == FW_available(config, fixed, now)
       IN  /\ fixed' = out.state
           /\ last' = Call("available", c, out.result)
           /\ obs' = [admitted |-> obs.admitted, rolled |-> WindowOver]
    /\ UNCHANGED <<now, pc, wake>>
    /\ UNCHANGED spanFixed

SpanNext ==
    \/ SpanTick
    \/ \E c \in Callers : SpanTryAcquire(c)
    \/ \E c \in Callers : SpanAvailable(c)

SpecSpan == SpanInit /\ [][SpanNext]_vars

\* ------------------------------------------------------------ spans: claims

\* C34 as stated: with no reset, the Allowed results in any time span of
\* length at most window_size are at most 2 * burst_size, whatever the number
\* of callers.
C34_Original == Len(obs.admitted) <= 2 * config.burst_size

\* C34 amended: the same, for a window_size longer than zero.
C34_SpanBound ==
    config.window_size > 0 => Len(obs.admitted) <= 2 * config.burst_size

\* 2 * burst Allowed results in a span of exactly window_size, the last to
\* the second caller: burst at the start of a window, burst at the rollover
\* that ends it
C34_Witness ==
    /\ config.window_size > 0
    /\ config.burst_size = MaxBurst
    /\ Len(obs.admitted) = 2 * config.burst_size
    /\ obs.admitted[1] = now - config.window_size
    /\ IsTry(last) /\ is_allowed(last.result) /\ last.caller = NumCallers

\* C38: with no reset, window_start never decreases and windows do not
\* overlap: a call that moves window_start moves it to the current time, at
\* least window_size after the previous window_start, and count goes down
\* only in such a rollover (to 0, or to 1 when the call is then Allowed).
C38_WindowsInOrder ==
    [][/\ fixed'.window_start >= fixed.window_start
       /\ fixed'.window_start # fixed.window_start
             => /\ fixed'.window_start = now
                /\ fixed'.window_start >= fixed.window_start + config.window_size
       /\ fixed'.count < fixed.count
             => /\ fixed'.window_start = now
                /\ fixed'.window_start >= fixed.window_start + config.window_size
                /\ fixed'.count = IF IsTry(last') THEN 1 ELSE 0
       /\ fixed'.count <= fixed.count + 1]_vars

\* a try_acquire has just rolled a full window over, later than at the
\* window's end, and was Allowed
C38_Witness ==
    /\ obs.rolled
    /\ config.window_size > 0
    /\ config.burst_size = MaxBurst
    /\ fixed.window_start > config.window_size
    /\ fixed.window_start = now
    /\ fixed.count = 1
    /\ Len(obs.admitted) = MaxBurst + 1
    /\ IsTry(last) /\ is_allowed(last.result)

(***************************************************************************)
(* SpecFault: one caller calls try_acquire and available on an instance of *)
(* any of the three strategies, whose config is an ordinary one or one at  *)
(* the edge of what RateLimitConfig::new accepts: the slowest rates and    *)
(* the longest window.                                                     *)
(***************************************************************************)

FaultConfigs(kind) ==
    IF kind = "TokenBucket"
    THEN ConfigsOf({1} \cup SlowRates, 1..MaxBurst, {1})
    ELSE ConfigsOf({1}, 1..MaxBurst, {1, DurationMax})

\* The observer.  calls: how many calls have been made (up to MaxCalls).
FaultObsInit == [calls |-> 0]

FaultInit ==
    /\ now = 0
    /\ strategy \in {"TokenBucket", "SlidingWindow", "FixedWindow"}
    /\ config \in FaultConfigs(strategy)
    /\ bucket = TB_new(config, 0)
    /\ sliding = SW_new(config)
    /\ fixed = FW_new(config, 0)
    /\ pc = [c \in Callers |-> "idle"]
    /\ wake = [c \in Callers |-> 0]
    /\ last = NoCall
    /\ tbObs = None
    /\ swObs = None
    /\ fwObs = None
    /\ mutex = NoCaller
    /\ frame = [c \in Callers |-> NoFrame]
    /\ lkObs = None
    /\ obs = FaultObsInit

FaultTick ==
    /\ now < MaxTime
    /\ now' = now + 1
    /\ last' = NoCall
    /\ UNCHANGED <<bucket, sliding, fixed, obs>>
    /\ UNCHANGED pollFixed

FaultTryAcquire ==
    /\ obs.calls < MaxCalls
    /\ \E t2 \in now..MaxTime :
          LET out == Alone("try_acquire", Instance, now, t2)
          IN  /\ t2 > now => strategy = "FixedWindow" /\ is_denied(out.result)
              /\ SetInstance(out.inst)
              /\ now' = t2
              /\ last' = Call("try_acquire", 1, out.result)
    /\ obs' = [calls |-> obs.calls + 1]
    /\ UNCHANGED pollFixed

FaultAvailable ==
    /\ obs.calls < MaxCalls
    /\ LET out == Alone("available", Instance, now, now)
       IN  /\ SetInstance(out.inst)
           /\ last' = Call("available", 1, out.result)
    /\ obs' = [calls |-> obs.calls + 1]
    /\ UNCHANGED now
    /\ UNCHANGED pollFixed

FaultNext ==
    \/ FaultTick
    \/ FaultTryAcquire
    \/ FaultAvailable

SpecFault == FaultInit /\ [][FaultNext]_vars

\* ------------------------------------------------------------ faults: claims

\* C36: for every valid config and every clock value try_acquire returns
\* Allowed or Denied and available returns a count, neither faulting; so
\* does the sliding window when window_size is longer than the time since
\* the clock's origin.
C36_Original ==
    /\ last.op = "try_acquire" => is_allowed(last.result) \/ is_denied(last.result)
    /\ last.op = "available" => last.result >= 0

=============================================================================
